---- MODULE Spec2Model ----
(***************************************************************************)
(* A model of the NoteWorthy Composer text (.nwctxt) tooling of            *)
(* liedteksten-code: the document model (nwc_utils.py), the concatenation  *)
(* engine (nwc-concat.py) and the structural analyzer (nwc_analyze.py).    *)
(*                                                                         *)
(* Text.  A Python str is modelled as a sequence of lexical tokens whose   *)
(* concatenation is the string: the delimiter "|", the words between       *)
(* delimiters, and the few sub-word marks the code searches for ("^",      *)
(* "Slur", the quote, the space, the hyphen, a field key such as "Dur:"). *)
(* No token of the alphabet                                                *)
(* contains "|", a quote, a space, a hyphen or the newline, and no pattern *)
(* the code searches for straddles part of a token, so startswith, find,   *)
(* count, split and strip on the Python strings are the same operations    *)
(* on the token sequences.  A file is the sequence of its lines as         *)
(* readlines() and rstrip('\n') yield them.                                *)
(*                                                                         *)
(* Objects.  A Python list is mutable and shared by reference.  A          *)
(* document carries a heap (a sequence of line lists) and its staves hold  *)
(* indices into it, so two staves that are the same list object stay the   *)
(* same list in the model.                                                 *)
(***************************************************************************)
EXTENDS Integers, Sequences, FiniteSets, TLC

VARIABLES
    pc,             \* position of the modelled script run
    file_lines,     \* the file NwcFile(filepath) reads
    nwc,            \* the NwcFile object
    written,        \* the lines write_to_file wrote
    file_list,      \* concatenate_nwctxt_files: the section files read so far
    keep_tempi,     \* concatenate_nwctxt_files: its keep_tempi argument
    cat,            \* concatenate_nwctxt_files: header, concatenated_staffs, warnings
    output_file,    \* concatenate_nwctxt_files: the lines written to output_file
    scan,           \* map_lyrics_to_measures: its arguments and the locals of its loop
    song,           \* the merged file the analyzer reads
    analysis,       \* the result of analyze_complete_song
    report,         \* the result of format_output
    proc,           \* process_lieddelen: the sections to come and its locals
    chords,         \* extract_chords_from_first_staff: its input and the locals of its loop
    pickup,         \* get_pickup_beats: the file it reads and its result
    mute,           \* nwc_convert: the document, the staff selected and the file written
    svc,            \* the conversion service: its requests and the two directories
    fn              \* a call of one function: its arguments and its result

docVars == <<file_lines, nwc, written>>
catVars == <<file_list, keep_tempi, cat, output_file>>
anaVars == <<song, analysis, report>>
toolVars == <<proc, chords, pickup, mute, svc, fn>>
notDoc == <<catVars, scan, anaVars, toolVars>>
notCat == <<docVars, scan, anaVars, toolVars>>
notScan == <<docVars, catVars, anaVars, toolVars>>
notAna == <<docVars, catVars, scan, toolVars>>
coreVars == <<docVars, catVars, scan, anaVars>>
notProc == <<coreVars, chords, pickup, mute, svc, fn>>
notChords == <<coreVars, proc, pickup, mute, svc, fn>>
notPickup == <<coreVars, proc, chords, mute, svc, fn>>
notMute == <<coreVars, proc, chords, pickup, svc, fn>>
notSvc == <<coreVars, proc, chords, pickup, mute, fn>>
notFn == <<coreVars, proc, chords, pickup, mute, svc>>
vars == <<pc, docVars, catVars, scan, anaVars, toolVars>>

----------------------------------------------------------------------------
(* Bounds of the model *)

MaxFileLen == 5
MaxStaffs == 2
MaxBody == 2
MaxSections == 3
MaxScanLen == 4
MaxSyllables == 3
MaxBass == 4
MaxZang == 3
MaxLieddelen == 3
MaxChordStaff == 5
MaxPickupLead == 2
MaxMuteStaffs == 3
MaxLyricLen == 4
MaxSetupLines == 3
MaxMerges == 2
MaxCountStaff == 5

----------------------------------------------------------------------------
(* str operations, on token sequences *)

StartsWith(s, p) == Len(s) >= Len(p) /\ SubSeq(s, 1, Len(p)) = p

EndsWith(s, p) == Len(s) >= Len(p) /\ SubSeq(s, Len(s) - Len(p) + 1, Len(s)) = p

\* str.find(p, start) with 1-based positions: the first position >= from at
\* which p occurs in s, and 0 (Python's -1) when there is none.
Find(s, p, from) ==
    LET hits == {i \in from..(Len(s) - Len(p) + 1) : SubSeq(s, i, i + Len(p) - 1) = p}
    IN  IF hits = {} THEN 0 ELSE CHOOSE i \in hits : \A j \in hits : i <= j

\* p in s
Contains(s, p) == Find(s, p, 1) # 0

RECURSIVE CountFrom(_, _, _)
CountFrom(s, p, from) ==
    LET i == Find(s, p, from)
    IN  IF i = 0 THEN 0 ELSE 1 + CountFrom(s, p, i + Len(p))

\* str.count(p): the non-overlapping occurrences of p in s
Count(s, p) == CountFrom(s, p, 1)

RECURSIVE Flatten(_)
Flatten(ss) == IF ss = <<>> THEN <<>> ELSE Head(ss) \o Flatten(Tail(ss))

RECURSIVE JoinLines(_)
\* '\n'.join(lines)
JoinLines(ls) ==
    IF ls = <<>> THEN <<>>
    ELSE IF Len(ls) = 1 THEN ls[1]
    ELSE ls[1] \o <<"\n">> \o JoinLines(Tail(ls))

SeqsUpTo(S, n) == UNION {[1..k -> S] : k \in 0..n}

----------------------------------------------------------------------------
(* constants.py *)

STAFF_NAME_BASS == <<"Bass">>
STAFF_NAME_ZANG == <<"Zang">>
NWC_PREFIX_ADDSTAFF == <<"|", "AddStaff", "|">>
NWC_PREFIX_STAFF_PROPERTIES == <<"|", "StaffProperties", "|">>
NWC_PREFIX_STAFF_INSTRUMENT == <<"|", "StaffInstrument", "|">>
NWC_PREFIX_CLEF == <<"|", "Clef", "|">>
NWC_PREFIX_TIMESIG == <<"|", "TimeSig", "|">>
NWC_PREFIX_TEMPO == <<"|", "Tempo", "|">>
NWC_PREFIX_BAR == <<"|", "Bar", "|">>
NWC_PREFIX_NOTE == <<"|", "Note", "|">>
NWC_PREFIX_REST == <<"|", "Rest", "|">>
NWC_PREFIX_TEXT == <<"|", "Text", "|">>
NWC_PREFIX_LYRIC1 == <<"|", "Lyric1", "|">>
NWC_END_MARKER == <<"!NoteWorthyComposer-End">>
NWC_MARKER_LIEDSTART == <<"liedstart">>

----------------------------------------------------------------------------
(* Lines of the format *)

Quote == "\""
NameField(n) == <<"Name:", Quote>> \o n \o <<Quote>>
AddStaffLine(n) == NWC_PREFIX_ADDSTAFF \o NameField(n) \o <<"|", "Group:", Quote, "Standard", Quote>>
HeaderLine == <<"!NoteWorthyComposer(2.751)">>
NoteLine == NWC_PREFIX_NOTE \o <<"Dur:", "4th", "|", "Pos:0">>
RestLine == NWC_PREFIX_REST \o <<"Dur:", "4th">>
PlainBarLine == <<"|", "Bar">>
DoubleBarLine == NWC_PREFIX_BAR \o <<"Style:Double">>

----------------------------------------------------------------------------
(* nwc_utils.py: NwcStaff, NwcFile *)

None == [has |-> FALSE, val |-> <<>>]
Some(v) == [has |-> TRUE, val |-> v]

\* The name found in one line: the text between 'Name:"' and the next quote;
\* when no quote follows, find() gives -1 and the slice drops the last token.
NameInLine(line) ==
    LET start == Find(line, <<"Name:", Quote>>, 1) + 2
        end == Find(line, <<Quote>>, start)
    IN  IF end = 0 THEN SubSeq(line, start, Len(line) - 1)
        ELSE SubSeq(line, start, end - 1)

_extract_name(lines) ==
    LET hits == {i \in 1..Len(lines) : Contains(lines[i], <<"Name:", Quote>>)}
    IN  IF hits = {} THEN None
        ELSE Some(NameInLine(lines[CHOOSE i \in hits : \A j \in hits : i <= j]))

\* NwcStaff(lines): the staff keeps the list object it is given (a heap index)
\* and the name extracted from it at construction.
NwcStaff(heap, ref) == [lines |-> ref, name |-> _extract_name(heap[ref])]

ParseStart ==
    [header_lines |-> <<>>, staffs |-> <<>>, heap |-> << <<>> >>,
     current_staff |-> 1, in_header |-> TRUE]

Flush(st) ==
    IF st.heap[st.current_staff] # <<>>
    THEN [st EXCEPT !.staffs = Append(@, NwcStaff(st.heap, st.current_staff))]
    ELSE st

\* The end marker appends the staff in progress but keeps current_staff bound to
\* the same list.
ParseEndNoFlush(st) == st
ParseEnd(st) == Flush(st)

\* One iteration of the loop of NwcFile._parse.
ParseLine(st, line) ==
    IF StartsWith(line, NWC_PREFIX_ADDSTAFF)
    THEN LET f == Flush(st)
         IN  [f EXCEPT !.in_header = FALSE,
                       !.heap = Append(@, <<line>>),
                       !.current_staff = Len(f.heap) + 1]
    ELSE IF line = NWC_END_MARKER THEN ParseEnd(st)
    ELSE IF st.in_header THEN [st EXCEPT !.header_lines = Append(@, line)]
    ELSE [st EXCEPT !.heap[st.current_staff] = Append(@, line)]

RECURSIVE ParseFrom(_, _, _)
ParseFrom(st, lines, i) ==
    IF i > Len(lines) THEN st ELSE ParseFrom(ParseLine(st, lines[i]), lines, i + 1)

\* NwcFile(filepath): the object after __init__ ran _parse.
NwcFile(lines) ==
    LET st == ParseFrom(ParseStart, lines, 1)
    IN  [header_lines |-> st.header_lines, staffs |-> st.staffs, heap |-> st.heap]

NoFile == [header_lines |-> <<>>, staffs |-> <<>>, heap |-> <<>>]

StaffLines(d, i) == d.heap[d.staffs[i].lines]

AllStaffLines(d) == [i \in 1..Len(d.staffs) |-> StaffLines(d, i)]

\* parse_nwctxt: (header_lines, [staff.lines for staff in nwc.staffs]); the staff
\* sections are the staves' own list objects.
parse_nwctxt(lines) ==
    LET d == NwcFile(lines)
    IN  [header |-> d.header_lines,
         staff_sections |-> [i \in 1..Len(d.staffs) |-> d.staffs[i].lines],
         heap |-> d.heap]

\* NwcFile.write_to_file: header, every staff's lines, the end marker.
write_to_file(d) == d.header_lines \o Flatten(AllStaffLines(d)) \o <<NWC_END_MARKER>>

----------------------------------------------------------------------------
(* Parse and serialize one file *)

ParseAlphabet ==
    {HeaderLine, AddStaffLine(<<"A">>), AddStaffLine(<<"B">>), NoteLine, NWC_END_MARKER}

NoCat == [header |-> <<>>, staffs |-> <<>>, heap |-> <<>>, warnings |-> <<>>]

CatIdle ==
    /\ file_list = <<>>
    /\ keep_tempi = FALSE
    /\ cat = NoCat
    /\ output_file = <<>>

ScanIdle == scan = <<>>

AnaIdle ==
    /\ song = <<>>
    /\ analysis = <<>>
    /\ report = <<>>

ProcIdle == proc = <<>>

ChordsIdle == chords = <<>>

PickupIdle == pickup = <<>>

MuteIdle == mute = <<>>

SvcIdle == svc = <<>>

FnIdle == fn = <<>>

RestIdle == SvcIdle /\ FnIdle

ToolIdle == ProcIdle /\ ChordsIdle /\ PickupIdle /\ MuteIdle /\ RestIdle

DocIdle ==
    /\ file_lines = <<>>
    /\ nwc = NoFile
    /\ written = <<>>

InitParse ==
    /\ pc = "start"
    /\ file_lines \in SeqsUpTo(ParseAlphabet, MaxFileLen)
    /\ nwc = NoFile
    /\ written = <<>>
    /\ CatIdle /\ ScanIdle /\ AnaIdle /\ ToolIdle

Parse ==
    /\ pc = "start"
    /\ nwc' = NwcFile(file_lines)
    /\ pc' = "parsed"
    /\ UNCHANGED <<file_lines, written, notDoc>>

Serialize ==
    /\ pc = "parsed"
    /\ written' = write_to_file(nwc)
    /\ pc' = "written"
    /\ UNCHANGED <<file_lines, nwc, notDoc>>

NextParse == Parse \/ Serialize

SpecParse == InitParse /\ [][NextParse]_vars

----------------------------------------------------------------------------
(* Claims on the document model *)

IsEnd(line) == line = NWC_END_MARKER
IsAddStaff(line) == StartsWith(line, NWC_PREFIX_ADDSTAFF)

\* Zero or more header lines, staff blocks, and exactly one end marker, last.
WellFormed(x) ==
    /\ Len(x) >= 1
    /\ IsEnd(x[Len(x)])
    /\ \A i \in 1..(Len(x) - 1) : ~IsEnd(x[i])

\* C1: parsing a well-formed file and serializing the unmodified document
\* yields exactly the input line sequence.
RoundTrip == (pc = "written" /\ WellFormed(file_lines)) => written = file_lines

\* A well-formed file with a header line and two staves was written back.
RoundTripWitness ==
    /\ pc = "written"
    /\ WellFormed(file_lines)
    /\ Len(nwc.header_lines) >= 1
    /\ Len(nwc.staffs) = 2
    /\ Len(StaffLines(nwc, 1)) >= 2

RECURSIVE WithoutEnd(_)
WithoutEnd(x) ==
    IF x = <<>> THEN <<>>
    ELSE IF IsEnd(Head(x)) THEN WithoutEnd(Tail(x))
    ELSE <<Head(x)>> \o WithoutEnd(Tail(x))

\* C2: for every input, well-formed or not, the header followed by the staves
\* holds every line other than an end marker exactly once, in input order.
ParseKeepsEveryLine ==
    pc = "parsed" => nwc.header_lines \o Flatten(AllStaffLines(nwc)) = WithoutEnd(file_lines)

----------------------------------------------------------------------------
(* nwc-concat.py: concatenate_nwctxt_files *)

StaffPropertiesLine == NWC_PREFIX_STAFF_PROPERTIES \o <<"Muted:", "N", "|", "Volume:", "100">>
StaffInstrumentLine == NWC_PREFIX_STAFF_INSTRUMENT \o <<"Patch:0">>
ClefLine == NWC_PREFIX_CLEF \o <<"Type:Treble">>
TimeSigLine == NWC_PREFIX_TIMESIG \o <<"Signature:", "4", "/", "4">>
TempoLine == NWC_PREFIX_TEMPO \o <<"Tempo:", "120">>

Min(a, b) == IF a < b THEN a ELSE b

\* The prefixes of the lines a later section leaves out.
skip_prefixes(keep) ==
    <<NWC_PREFIX_ADDSTAFF, NWC_PREFIX_STAFF_PROPERTIES, NWC_PREFIX_STAFF_INSTRUMENT,
      NWC_PREFIX_CLEF, NWC_PREFIX_TIMESIG>>
    \o (IF ~keep THEN <<NWC_PREFIX_TEMPO>> ELSE <<>>)

staff_data_KeepAll(lines, keep) == lines

\* staff_data: the lines of a later section's staff that start with no skip prefix.
staff_data(lines, keep) ==
    LET sp == skip_prefixes(keep)
        Keeps(line) == ~(\E k \in 1..Len(sp) : StartsWith(line, sp[k]))
    IN  SelectSeq(lines, Keeps)

\* f'{NWC_PREFIX_BAR}|Style:Double'
SeparatorLine == NWC_PREFIX_BAR \o <<"|", "Style:Double">>

\* The test before the separator is appended.
NeedsSeparator(data) == data # <<>> /\ ~StartsWith(data[1], NWC_PREFIX_BAR)

\* min_staffs of one later file against the staves concatenated so far.
min_staffs(n, m) == IF n # m THEN Min(n, m) ELSE n

\* One iteration of "for i in range(min_staffs)": the append and the extend act
\* on the list object concatenated_staffs[i] refers to.
MergeStaff(heap, ref, lines, keep) ==
    LET data == staff_data(lines, keep)
        sep == IF NeedsSeparator(data) THEN <<SeparatorLine>> ELSE <<>>
    IN  [heap EXCEPT ![ref] = @ \o sep \o data]

RECURSIVE MergeStaffs(_, _, _, _, _, _)
MergeStaffs(heap, refs, sect, keep, i, n) ==
    IF i > n THEN heap
    ELSE MergeStaffs(MergeStaff(heap, refs[i], sect[i], keep), refs, sect, keep, i + 1, n)

\* The state after the first file was parsed: its header and its staves' lists.
CatSeed(first) ==
    LET p == parse_nwctxt(first)
    IN  [header |-> p.header, staffs |-> p.staff_sections, heap |-> p.heap,
         warnings |-> <<>>]

\* One iteration of "for filepath in file_list[1:]", for the k-th file.
CatSection(c, f, keep, k) ==
    LET p == parse_nwctxt(f)
        n == Len(p.staff_sections)
        m == Len(c.staffs)
        sect == [i \in 1..n |-> p.heap[p.staff_sections[i]]]
    IN  [c EXCEPT !.heap = MergeStaffs(c.heap, c.staffs, sect, keep, 1, min_staffs(n, m)),
                  !.warnings = IF n # m THEN Append(@, k) ELSE @]

CatStaff(c, i) == c.heap[c.staffs[i]]

CatStaffs(c) == [i \in 1..Len(c.staffs) |-> CatStaff(c, i)]

\* The lines written to output_file.
CatOutput(c) == c.header \o Flatten(CatStaffs(c)) \o <<NWC_END_MARKER>>

----------------------------------------------------------------------------
(* Section files *)

BodyAlphabet ==
    {StaffPropertiesLine, StaffInstrumentLine, ClefLine, TimeSigLine, TempoLine,
     NoteLine, DoubleBarLine, PlainBarLine}

Tails == {<<NWC_END_MARKER>>, <<>>, <<NWC_END_MARKER, NWC_END_MARKER>>}

StaffNames == <<"A", "B", "C">>

StaffBlock(i, body) == <<AddStaffLine(<<StaffNames[i]>>)>> \o body

\* Files of n staves, the i-th with a body of Bodies[i].
RECURSIVE FilesOf(_, _)
FilesOf(n, Bodies) ==
    IF n = 0 THEN {<<>>}
    ELSE {f \o StaffBlock(n, b) : f \in FilesOf(n - 1, Bodies), b \in Bodies[n]}

FilesUpTo(n, Bodies, tails) ==
    {<<HeaderLine>> \o f \o t : f \in UNION {FilesOf(k, Bodies) : k \in 0..n}, t \in tails}

\* The first file: its lines are taken over as they are.
FirstFiles ==
    FilesUpTo(MaxStaffs, [i \in 1..MaxStaffs |-> {<<ClefLine, NoteLine>>}], Tails)

\* The second file: every kind of line in the first staff.
SecondFiles ==
    FilesUpTo(MaxStaffs,
              [i \in 1..MaxStaffs |->
                  IF i = 1 THEN SeqsUpTo(BodyAlphabet, MaxBody)
                  ELSE {<<>>, <<TempoLine, NoteLine>>}],
              Tails)

\* Further files.
FurtherFiles ==
    FilesUpTo(MaxStaffs,
              [i \in 1..MaxStaffs |->
                  {<<TimeSigLine, DoubleBarLine, NoteLine>>, <<TimeSigLine, NoteLine>>}],
              {<<NWC_END_MARKER>>})
    \ {<<HeaderLine, NWC_END_MARKER>>}

InitConcat ==
    /\ pc = "concat_start"
    /\ file_list = <<>>
    /\ keep_tempi \in BOOLEAN
    /\ cat = NoCat
    /\ output_file = <<>>
    /\ DocIdle /\ ScanIdle /\ AnaIdle /\ ToolIdle

\* header, first_staffs = parse_nwctxt(file_list[0])
ConcatFirst ==
    /\ pc = "concat_start"
    /\ \E f \in FirstFiles :
        /\ file_list' = <<f>>
        /\ cat' = CatSeed(f)
    /\ pc' = "concat_loop"
    /\ UNCHANGED <<keep_tempi, output_file, notCat>>

\* The loop body, for the next file of file_list.
ConcatSection ==
    /\ pc = "concat_loop"
    /\ Len(file_list) < MaxSections
    /\ \E f \in (IF Len(file_list) = 1 THEN SecondFiles ELSE FurtherFiles) :
        /\ file_list' = Append(file_list, f)
        /\ cat' = CatSection(cat, f, keep_tempi, Len(file_list) + 1)
    /\ UNCHANGED <<pc, keep_tempi, output_file, notCat>>

\* The loop ended: write output_file.
ConcatWrite ==
    /\ pc = "concat_loop"
    /\ output_file' = CatOutput(cat)
    /\ pc' = "concat_done"
    /\ UNCHANGED <<file_list, keep_tempi, cat, notCat>>

NextConcat == ConcatFirst \/ ConcatSection \/ ConcatWrite

SpecConcat == InitConcat /\ [][NextConcat]_vars

----------------------------------------------------------------------------
(* Claims on the concatenation engine *)

\* A bar element: a styled '|Bar|...' line or the plain '|Bar' line.
IsBarElement(line) == StartsWith(line, <<"|", "Bar", "|">>) \/ line = <<"|", "Bar">>

IsDoubleBar(line) == IsBarElement(line) /\ Contains(line, <<"Style:Double">>)

\* A setup line of a later section, as the claims list them.
IsSetupLine(line, keep) ==
    \/ StartsWith(line, NWC_PREFIX_ADDSTAFF)
    \/ StartsWith(line, NWC_PREFIX_STAFF_PROPERTIES)
    \/ StartsWith(line, NWC_PREFIX_STAFF_INSTRUMENT)
    \/ StartsWith(line, NWC_PREFIX_CLEF)
    \/ StartsWith(line, NWC_PREFIX_TIMESIG)
    \/ (~keep /\ StartsWith(line, NWC_PREFIX_TEMPO))

Remaining(lines, keep) ==
    LET Stays(line) == ~IsSetupLine(line, keep) IN SelectSeq(lines, Stays)

\* The staves of a section file, as a document.
SectionStaffs(f) == AllStaffLines(NwcFile(f))

\* A step of the loop over the later files.
IsSectionStep ==
    /\ pc = "concat_loop" /\ pc' = "concat_loop"
    /\ Len(file_list') = Len(file_list) + 1

NewSection == SectionStaffs(file_list'[Len(file_list')])

\* C3: for each later section and each staff index below the common staff
\* count, exactly one double-bar separator line is inserted, right before the
\* section's remaining lines, when these are non-empty and do not begin with a
\* bar element; none is inserted when they begin with a bar element or are empty.
SeparatorRule ==
    [][IsSectionStep =>
        \A i \in 1..Min(Len(NewSection), Len(cat.staffs)) :
            LET rem == Remaining(NewSection[i], keep_tempi)
                old == CatStaff(cat, i)
                new == CatStaff(cat', i)
            IN  IF rem # <<>> /\ ~IsBarElement(rem[1])
                THEN /\ Len(new) = Len(old) + 1 + Len(rem)
                     /\ new = old \o <<new[Len(old) + 1]>> \o rem
                     /\ IsDoubleBar(new[Len(old) + 1])
                ELSE new = old \o rem]_vars

\* C4: when a later section has another number of staves than the first
\* document, a warning is emitted, only the staff indices below the smaller
\* count are merged, every other result staff is left unchanged, and the result
\* keeps the staff count of the first document.
MismatchRule ==
    [][(IsSectionStep /\ Len(NewSection) # Len(SectionStaffs(file_list[1]))) =>
        LET n == Min(Len(NewSection), Len(SectionStaffs(file_list[1])))
        IN  /\ cat'.warnings = Append(cat.warnings, Len(file_list'))
            /\ Len(cat'.staffs) = Len(SectionStaffs(file_list[1]))
            /\ \A i \in 1..Len(cat'.staffs) :
                 IF i <= n
                 THEN \E sep \in {<<>>, <<SeparatorLine>>} :
                        CatStaff(cat', i)
                          = CatStaff(cat, i) \o sep \o Remaining(NewSection[i], keep_tempi)
                 ELSE CatStaff(cat', i) = CatStaff(cat, i)]_vars

RECURSIVE KeptOfSections(_, _, _)
\* The lines staff i takes from the sections k..Len(fl), separators left out.
KeptOfSections(fl, i, k) ==
    IF k > Len(fl) THEN <<>>
    ELSE (IF i <= Len(SectionStaffs(fl[k]))
          THEN Remaining(SectionStaffs(fl[k])[i], keep_tempi) ELSE <<>>)
         \o KeptOfSections(fl, i, k + 1)

WithoutSeparators(lines) ==
    LET NotSep(line) == line # SeparatorLine IN SelectSeq(lines, NotSep)

\* C5: the merged document has the first document's header and staff lines as
\* they are, followed, per merged staff, by every line of each later section
\* that is not a setup line, in section order and in the section's own order.
MergedContent ==
    pc = "concat_done" =>
        LET first == NwcFile(file_list[1])
        IN  /\ cat.header = first.header_lines
            /\ Len(cat.staffs) = Len(first.staffs)
            /\ \A i \in 1..Len(cat.staffs) :
                 WithoutSeparators(CatStaff(cat, i))
                   = StaffLines(first, i) \o KeptOfSections(file_list, i, 2)
            /\ output_file = cat.header \o Flatten(CatStaffs(cat)) \o <<NWC_END_MARKER>>

\* The lines that bars divide into measures: no setup line, no tempo line.
MeasureLines(lines) == Remaining(lines, FALSE)

\* The measures of a staff: the stretches its bar elements delimit, a bar at
\* the very start or the very end delimiting no measure of its own.
Measures(lines) ==
    LET ml == MeasureLines(lines)
        bars == Cardinality({k \in 1..Len(ml) : IsBarElement(ml[k])})
    IN  IF ml = <<>> THEN 0
        ELSE bars + 1 - (IF IsBarElement(ml[1]) THEN 1 ELSE 0)
                      - (IF IsBarElement(ml[Len(ml)]) THEN 1 ELSE 0)

\* C29: no empty measure at a join: in every merged staff the separator bar is
\* never placed directly after a bar element ending the lines merged so far,
\* and the merged staff has as many measures as the staff before the merge
\* and the section's staff together.
NoEmptyMeasureAtJoin ==
    [][IsSectionStep =>
        \A i \in 1..Min(Len(NewSection), Len(cat.staffs)) :
            LET old == CatStaff(cat, i)
                new == CatStaff(cat', i)
            IN  /\ (Len(new) > Len(old) /\ new[Len(old) + 1] = SeparatorLine)
                      => ~IsBarElement(old[Len(old)])
                /\ Measures(new) = Measures(old) + Measures(NewSection[i])]_vars

----------------------------------------------------------------------------
(* nwc_analyze.py: the structural analyzer *)

IsSpace(t) == t \in {" ", "\t", "\n", "\r"}

RECURSIVE LStrip(_)
LStrip(s) == IF s # <<>> /\ IsSpace(Head(s)) THEN LStrip(Tail(s)) ELSE s

RECURSIVE RStrip(_)
RStrip(s) ==
    IF s # <<>> /\ IsSpace(s[Len(s)]) THEN RStrip(SubSeq(s, 1, Len(s) - 1)) ELSE s

\* str.strip()
Strip(s) == RStrip(LStrip(s))

RECURSIVE Split(_, _)
\* str.split(sep), sep one token
Split(s, sep) ==
    LET i == Find(s, <<sep>>, 1)
    IN  IF i = 0 THEN <<s>>
        ELSE <<SubSeq(s, 1, i - 1)>> \o Split(SubSeq(s, i + 1, Len(s)), sep)

\* str.split(p)[0]
BeforeFirst(s, p) ==
    LET i == Find(s, p, 1) IN IF i = 0 THEN s ELSE SubSeq(s, 1, i - 1)

Unescape_ApostropheOnly(t) == IF t = "\\'" THEN "'" ELSE t

\* The escapes of a lyric text: \' becomes ' and \n becomes a space.
Unescape(t) == IF t = "\\'" THEN "'" ELSE IF t = "\\n" THEN " " ELSE t

RECURSIVE Syllabify(_, _, _)
\* The loop of parse_lyric_text over the characters of the text.
Syllabify(text, i, current) ==
    IF i > Len(text)
    THEN IF Strip(current) # <<>> THEN <<Strip(current)>> ELSE <<>>
    ELSE IF text[i] \in {" ", "-"}
    THEN IF Strip(current) # <<>>
         THEN <<Strip(current)>> \o Syllabify(text, i + 1, <<>>)
         ELSE Syllabify(text, i + 1, current)
    ELSE Syllabify(text, i + 1, Append(current, text[i]))

RECURSIVE parse_lyric_text_EveryElement(_)
parse_lyric_text_EveryElement(lyric_line) ==
    LET open == NWC_PREFIX_LYRIC1 \o <<"Text:", Quote>>
        start == Find(lyric_line, open, 1)
        from == start + Len(open)
        end == Find(lyric_line, <<Quote>>, from)
        text == SubSeq(lyric_line, from, end - 1)
    IN  IF start = 0 \/ end = 0 THEN <<>>
        ELSE Syllabify([k \in 1..Len(text) |-> Unescape(text[k])], 1, <<>>)
             \o parse_lyric_text_EveryElement(SubSeq(lyric_line, end + 1, Len(lyric_line)))

\* re.search(r'\|Lyric1\|Text:"(.*?)"', lyric_line, re.DOTALL) and the split.
parse_lyric_text(lyric_line) ==
    LET open == NWC_PREFIX_LYRIC1 \o <<"Text:", Quote>>
        start == Find(lyric_line, open, 1)
        from == start + Len(open)
        end == Find(lyric_line, <<Quote>>, from)
        text == SubSeq(lyric_line, from, end - 1)
    IN  IF start = 0 \/ end = 0 THEN <<>>
        ELSE Syllabify([k \in 1..Len(text) |-> Unescape(text[k])], 1, <<>>)

count_bars_in_staff(staff_content) == Count(staff_content, NWC_PREFIX_BAR)

detect_begintel(first_staff) ==
    Contains(BeforeFirst(first_staff, NWC_PREFIX_BAR), NWC_PREFIX_REST)

LiedstartPrefix == NWC_PREFIX_TEXT \o <<"Text:", Quote>> \o NWC_MARKER_LIEDSTART \o <<Quote>>

count_vooraf_AlwaysMinusOne(staff_content) ==
    LET lines == Split(staff_content, "\n")
        hits == {i \in 1..Len(lines) : StartsWith(Strip(lines[i]), LiedstartPrefix)}
        liedstart_index == CHOOSE i \in hits : \A j \in hits : i <= j
        bars_before ==
            Cardinality({i \in 1..(liedstart_index - 1) :
                            StartsWith(Strip(lines[i]), NWC_PREFIX_BAR)})
    IN  IF hits = {} THEN 0
        ELSE IF detect_begintel(staff_content) THEN bars_before - 1
        ELSE bars_before

count_vooraf_measures(staff_content) ==
    LET lines == Split(staff_content, "\n")
        hits == {i \in 1..Len(lines) : StartsWith(Strip(lines[i]), LiedstartPrefix)}
        liedstart_index == CHOOSE i \in hits : \A j \in hits : i <= j
        bars_before ==
            Cardinality({i \in 1..(liedstart_index - 1) :
                            StartsWith(Strip(lines[i]), NWC_PREFIX_BAR)})
    IN  IF hits = {} THEN 0
        ELSE IF bars_before > 0 /\ detect_begintel(staff_content) THEN bars_before - 1
        ELSE bars_before

\* if key not in measure_map: measure_map[key] = []
WithKey(m, key) ==
    IF key \in DOMAIN m THEN m
    ELSE [x \in DOMAIN m \cup {key} |-> IF x = key THEN <<>> ELSE m[x]]

HasTieSlurOnly(element) == Count(element, <<"Slur">>) > 0
\* element.count('Slur') > 0 or element.endswith('^')
HasTie(element) == Count(element, <<"Slur">>) > 0 \/ EndsWith(element, <<"^">>)

\* The locals of map_lyrics_to_measures before its loop.
ScanStart ==
    [measure_map |-> <<>>, current_measure |-> 0, syllable_index |-> 0,
     skip_next_note |-> FALSE]

MapStep_RestTakes(st, syllables, raw) ==
    LET element == Strip(raw)
    IN  IF StartsWith(element, NWC_PREFIX_BAR)
        THEN [st EXCEPT !.current_measure = @ + 1,
                        !.measure_map = WithKey(@, st.current_measure + 1)]
        ELSE IF (StartsWith(element, NWC_PREFIX_NOTE) \/ StartsWith(element, NWC_PREFIX_REST))
                /\ st.syllable_index < Len(syllables)
        THEN IF st.skip_next_note
             THEN [st EXCEPT !.skip_next_note = HasTie(element)]
             ELSE [st EXCEPT
                     !.measure_map =
                         [WithKey(@, st.current_measure) EXCEPT
                             ![st.current_measure] =
                                 Append(@, syllables[st.syllable_index + 1])],
                     !.syllable_index = @ + 1,
                     !.skip_next_note = HasTie(element)]
        ELSE st

\* One iteration of the loop of map_lyrics_to_measures.
MapStep(st, syllables, raw) ==
    LET element == Strip(raw)
    IN  IF StartsWith(element, NWC_PREFIX_BAR)
        THEN [st EXCEPT !.current_measure = @ + 1,
                        !.measure_map = WithKey(@, st.current_measure + 1)]
        ELSE IF StartsWith(element, NWC_PREFIX_NOTE) /\ st.syllable_index < Len(syllables)
        THEN IF st.skip_next_note
             THEN [st EXCEPT !.skip_next_note = HasTie(element)]
             ELSE [st EXCEPT
                     !.measure_map =
                         [WithKey(@, st.current_measure) EXCEPT
                             ![st.current_measure] =
                                 Append(@, syllables[st.syllable_index + 1])],
                     !.syllable_index = @ + 1,
                     !.skip_next_note = HasTie(element)]
        ELSE st

RECURSIVE MapFrom(_, _, _, _)
MapFrom(st, syllables, elements, i) ==
    IF i > Len(elements) THEN st
    ELSE MapFrom(MapStep(st, syllables, elements[i]), syllables, elements, i + 1)

map_lyrics_to_measures(staff_content, syllables) ==
    MapFrom(ScanStart, syllables, Split(staff_content, "\n"), 1).measure_map

\* NwcFile.get_staff_by_name: the index of the first staff of that name, 0 for None.
get_staff_by_name(d, name) ==
    LET hits == {i \in 1..Len(d.staffs) : d.staffs[i].name = Some(name)}
    IN  IF hits = {} THEN 0 ELSE CHOOSE i \in hits : \A j \in hits : i <= j

\* NwcStaff.get_content
get_content(d, i) == JoinLines(StaffLines(d, i))

NoAnalysis ==
    [has |-> FALSE, total_bars |-> 0, total_measures |-> 0, has_begintel |-> FALSE,
     vooraf |-> 0, measure_map |-> <<>>]

total_measures_NoPickupFix(total_bars, has_begintel) == total_bars
\* total_measures = total_bars if has_begintel else total_bars + 1
total_measures_of(total_bars, has_begintel) ==
    IF has_begintel THEN total_bars ELSE total_bars + 1

\* analyze_nwctxt; the title, file and folder entries are left out.
analyze_nwctxt(file) ==
    LET d == NwcFile(file)
        bass_staff == get_staff_by_name(d, STAFF_NAME_BASS)
        zang_staff == get_staff_by_name(d, STAFF_NAME_ZANG)
        bass_content == get_content(d, bass_staff)
        zang_content == get_content(d, zang_staff)
        total_bars == count_bars_in_staff(bass_content)
        has_begintel == detect_begintel(bass_content)
    IN  IF bass_staff = 0 \/ zang_staff = 0 THEN NoAnalysis
        ELSE [has |-> TRUE,
              total_bars |-> total_bars,
              total_measures |-> total_measures_of(total_bars, has_begintel),
              has_begintel |-> has_begintel,
              vooraf |-> count_vooraf_measures(bass_content),
              measure_map |->
                  map_lyrics_to_measures(zang_content, parse_lyric_text(zang_content))]

\* measure_map_renumbered: every key lowered by vooraf
Renumber(m, vooraf) == [k \in {j - vooraf : j \in DOMAIN m} |-> m[k + vooraf]]

\* analyze_complete_song; tempo, timesig and total_duration are left out.
analyze_complete_song(file) ==
    LET basic == analyze_nwctxt(file)
    IN  IF ~basic.has THEN NoAnalysis
        ELSE [basic EXCEPT
                !.total_measures = basic.total_measures - basic.vooraf,
                !.measure_map = Renumber(basic.measure_map, basic.vooraf)]

RECURSIVE Sorted(_)
\* sorted(keys)
Sorted(S) ==
    IF S = {} THEN <<>>
    ELSE LET lo == CHOOSE x \in S : \A y \in S : x <= y
         IN  <<lo>> \o Sorted(S \ {lo})

RECURSIVE JoinWith(_, _)
\* sep.join(parts)
JoinWith(parts, sep) ==
    IF parts = <<>> THEN <<>>
    ELSE IF Len(parts) = 1 THEN parts[1]
    ELSE parts[1] \o <<sep>> \o JoinWith(Tail(parts), sep)

\* The rows of the "maat<TAB>tekst" table: the keys in order, key 0 skipped.
format_rows(measure_map) ==
    LET keys == SelectSeq(Sorted(DOMAIN measure_map), LAMBDA k : k # 0)
    IN  [r \in 1..Len(keys) |->
            [maat |-> keys[r], tekst |-> JoinWith(measure_map[keys[r]], " ")]]

\* format_output: the figures of the report and its table.
format_output(a) ==
    [total_measures |-> a.total_measures,
     has_begintel |-> IF a.has_begintel THEN "ja" ELSE "nee",
     vooraf |-> a.vooraf,
     rows |-> format_rows(a.measure_map)]

----------------------------------------------------------------------------
(* map_lyrics_to_measures, one element at a time *)

TieNoteLine == NWC_PREFIX_NOTE \o <<"Dur:", "4th", "|", "Pos:0", "^">>
SlurNoteLine == NWC_PREFIX_NOTE \o <<"Dur:", "4th", ",", "Slur", "|", "Pos:0">>
IndentedTieNoteLine == <<" ">> \o TieNoteLine \o <<" ">>

SyllableNames == <<"do", "re", "mi", "fa", "sol">>

Syllables(n) == [k \in 1..n |-> <<SyllableNames[k]>>]

ScanAlphabet ==
    {NoteLine, TieNoteLine, SlurNoteLine, IndentedTieNoteLine, RestLine,
     DoubleBarLine, PlainBarLine}

InitLyrics ==
    /\ pc = "map_loop"
    /\ \E body \in SeqsUpTo(ScanAlphabet, MaxScanLen), n \in 0..MaxSyllables :
         scan = [elements |-> Split(JoinLines(<<AddStaffLine(STAFF_NAME_ZANG)>> \o body), "\n"),
                 syllables |-> Syllables(n),
                 i |-> 1,
                 st |-> ScanStart]
    /\ DocIdle /\ CatIdle /\ AnaIdle /\ ToolIdle

\* for element in elements: ...
MapElement ==
    /\ pc = "map_loop"
    /\ scan.i <= Len(scan.elements)
    /\ scan' = [scan EXCEPT !.st = MapStep(@, scan.syllables, scan.elements[scan.i]),
                            !.i = @ + 1]
    /\ UNCHANGED <<pc, notScan>>

\* return measure_map
MapReturn ==
    /\ pc = "map_loop"
    /\ scan.i > Len(scan.elements)
    /\ pc' = "map_done"
    /\ UNCHANGED <<scan, notScan>>

NextLyrics == MapElement \/ MapReturn

SpecLyrics == InitLyrics /\ [][NextLyrics]_vars

----------------------------------------------------------------------------
(* Analysis of a merged song file *)

LiedstartLine ==
    NWC_PREFIX_TEXT \o <<"Text:", Quote>> \o NWC_MARKER_LIEDSTART
        \o <<Quote, "|", "Font:StaffItalic">>

LyricLine == NWC_PREFIX_LYRIC1 \o <<"Text:", Quote, "do", "-", "re", " ", "mi", "\\n", Quote>>

BassAlphabet == {RestLine, DoubleBarLine, PlainBarLine, LiedstartLine}

ZangAlphabet == {NoteLine, DoubleBarLine}

SongFile(bass, zang) ==
    <<HeaderLine, AddStaffLine(STAFF_NAME_BASS)>> \o bass
        \o <<AddStaffLine(STAFF_NAME_ZANG), LyricLine>> \o zang \o <<NWC_END_MARKER>>

SongFiles ==
    {SongFile(b, z) : b \in SeqsUpTo(BassAlphabet, MaxBass), z \in SeqsUpTo(ZangAlphabet, MaxZang)}
    \cup {<<HeaderLine, AddStaffLine(STAFF_NAME_BASS), DoubleBarLine, NWC_END_MARKER>>,
          <<HeaderLine, AddStaffLine(STAFF_NAME_ZANG), LyricLine, NoteLine, NWC_END_MARKER>>}

InitAnalyze ==
    /\ pc = "song"
    /\ song \in SongFiles
    /\ analysis = NoAnalysis
    /\ report = <<>>
    /\ DocIdle /\ CatIdle /\ ScanIdle /\ ToolIdle

\* analysis = analyze_complete_song(file_path)
Analyze ==
    /\ pc = "song"
    /\ analysis' = analyze_complete_song(song)
    /\ pc' = "analyzed"
    /\ UNCHANGED <<song, report, notAna>>

\* output = format_output(analysis, song_number), reached when analysis is not None
Report ==
    /\ pc = "analyzed"
    /\ analysis.has
    /\ report' = format_output(analysis)
    /\ pc' = "reported"
    /\ UNCHANGED <<song, analysis, notAna>>

NextAnalyze == Analyze \/ Report

SpecAnalyze == InitAnalyze /\ [][NextAnalyze]_vars

----------------------------------------------------------------------------
(* Properties of the lyric scan *)

IsNoteElement(raw) == StartsWith(Strip(raw), NWC_PREFIX_NOTE)

\* A tie marker: a 'Slur' substring or a trailing '^'.
CarriesTieMarker(raw) ==
    LET e == Strip(raw)
    IN  Contains(e, <<"Slur">>) \/ (e # <<>> /\ e[Len(e)] = "^")

\* The note at position i continues a tied sequence: the nearest note before
\* it carries a tie marker.
ContinuesSequence(elements, i) ==
    \E j \in 1..(i - 1) :
        /\ IsNoteElement(elements[j])
        /\ CarriesTieMarker(elements[j])
        /\ \A k \in (j + 1)..(i - 1) : ~IsNoteElement(elements[k])

\* The measure current at position i: the '|Bar|' lines scanned before it.
MeasureAt(elements, i) ==
    Cardinality({j \in 1..(i - 1) : StartsWith(Strip(elements[j]), NWC_PREFIX_BAR)})

SyllableAdded(m, measure, syllable) ==
    [k \in DOMAIN m \cup {measure} |->
        IF k = measure
        THEN (IF k \in DOMAIN m THEN m[k] ELSE <<>>) \o <<syllable>>
        ELSE m[k]]

----------------------------------------------------------------------------
(* Properties of the analysis and its report *)

Analyzed == pc \in {"analyzed", "reported"} /\ analysis.has

BassLines == LET d == NwcFile(song) IN StaffLines(d, get_staff_by_name(d, STAFF_NAME_BASS))

BassContent == JoinLines(BassLines)

\* The lyric map before renumbering.
OriginalMap == analyze_nwctxt(song).measure_map

IsLiedstart(line) == StartsWith(Strip(line), LiedstartPrefix)

HasLiedstart == \E i \in 1..Len(BassLines) : IsLiedstart(BassLines[i])

\* The measure of the first liedstart marker, in the numbering of the scan.
LiedstartMeasure ==
    LET i == CHOOSE i \in 1..Len(BassLines) :
                 IsLiedstart(BassLines[i]) /\ \A j \in 1..(i - 1) : ~IsLiedstart(BassLines[j])
    IN  MeasureAt(BassLines, i)

\* C7: every key of the reported lyric map is an original measure number
\* minus the vooraf count, and the measure that holds the liedstart marker
\* has number 1 after the renumbering, with and without a pickup measure.
LiedstartIsMeasureOne ==
    Analyzed =>
        /\ DOMAIN analysis.measure_map = {k - analysis.vooraf : k \in DOMAIN OriginalMap}
        /\ \A k \in DOMAIN OriginalMap :
               analysis.measure_map[k - analysis.vooraf] = OriginalMap[k]
        /\ HasLiedstart => LiedstartMeasure - analysis.vooraf = 1

InTable(syllable) ==
    \E r \in 1..Len(report.rows) : Contains(report.rows[r].tekst, syllable)

\* C8: the table of the report leaves out exactly the syllables of original
\* measure 0: a syllable of the original map is in the table if and only if
\* its original measure is not 0.
ReportOmitsMeasureZero ==
    pc = "reported" =>
        \A k \in DOMAIN OriginalMap :
            \A n \in 1..Len(OriginalMap[k]) :
                InTable(OriginalMap[k][n]) <=> k # 0

\* C9: total_measures is T - leadIn, T being the bar count of the Bass staff
\* when that staff has a pickup measure and the bar count plus one when it
\* has none, leadIn being the vooraf count of the same staff.
TotalMeasures ==
    Analyzed =>
        analysis.total_measures =
            (IF detect_begintel(BassContent)
             THEN count_bars_in_staff(BassContent)
             ELSE count_bars_in_staff(BassContent) + 1)
            - count_vooraf_measures(BassContent)

\* A pickup rest, two bars, then the marker: 2 bars, one lead-in measure.
TotalMeasuresWitness ==
    /\ pc = "analyzed"
    /\ analysis.has
    /\ analysis.has_begintel
    /\ analysis.total_bars = 2
    /\ analysis.vooraf = 1
    /\ analysis.total_measures = 1

IsRestElement(line) == StartsWith(Strip(line), NWC_PREFIX_REST)

\* A rest element with no bar element before it.
RestBeforeFirstBar(lines) ==
    \E i \in 1..Len(lines) :
        /\ IsRestElement(lines[i])
        /\ \A j \in 1..(i - 1) : ~IsBarElement(Strip(lines[j]))

\* C10: the pickup flag is true if and only if a rest element precedes the
\* first bar element of the staff.
PickupIffRestBeforeBar ==
    Analyzed => (analysis.has_begintel <=> RestBeforeFirstBar(BassLines))

----------------------------------------------------------------------------
(* Properties of count_vooraf_measures *)

\* A rest line with no '|Bar|' line before it.
PickupRest(lines) ==
    \E i \in 1..Len(lines) :
        /\ IsRestElement(lines[i])
        /\ \A j \in 1..(i - 1) : ~StartsWith(Strip(lines[j]), NWC_PREFIX_BAR)

----------------------------------------------------------------------------
(* Numbers.  A Python float is modelled as the rational it stands for, a    *)
(* pair <<numerator, denominator>> in lowest terms with a positive          *)
(* denominator; rounding is not modelled.                                   *)

Abs(n) == IF n < 0 THEN -n ELSE n

RECURSIVE GCD(_, _)
GCD(a, b) == IF b = 0 THEN a ELSE GCD(b, a % b)

Rat(n, d) ==
    LET g == GCD(Abs(n), Abs(d))
        sign == IF d < 0 THEN -1 ELSE 1
    IN  <<sign * (n \div g), sign * (d \div g)>>

RatInt(n) == <<n, 1>>
RatAdd(a, b) == Rat(a[1] * b[2] + b[1] * a[2], a[2] * b[2])
RatMul(a, b) == Rat(a[1] * b[1], a[2] * b[2])
RatDiv(a, b) == Rat(a[1] * b[2], a[2] * b[1])
RatLeq(a, b) == a[1] * b[2] <= b[1] * a[2]

\* int(text) for the number words of the model; None stands for ValueError.
IntWords == <<"0", "1", "2", "3", "4", "5", "6", "7", "8">>

ParseInt(text) ==
    IF Len(text) = 1 /\ \E n \in 1..Len(IntWords) : IntWords[n] = text[1]
    THEN Some((CHOOSE n \in 1..Len(IntWords) : IntWords[n] = text[1]) - 1)
    ELSE None

----------------------------------------------------------------------------
(* nwc-concat.py: get_duration and process_lieddelen *)

\* The outcomes of a call: a value, None, or an exception that propagates.
Returned(v) == [kind |-> "value", val |-> v]
ReturnedNone == [kind |-> "none", val |-> <<>>]
Raised(exc) == [kind |-> "raise", val |-> exc]

\* str.partition('/'): the text before the first '/' and the text after it.
PartitionSlash(text) ==
    LET i == Find(text, <<"/">>, 1)
    IN  IF i = 0 THEN <<text, <<>>>>
        ELSE <<SubSeq(text, 1, i - 1), SubSeq(text, i + 1, Len(text))>>

lieddeel_duration_One(measure_count, measure_duration) == measure_duration
\* lieddeel_duration = (measure_count * measure_duration)
lieddeel_duration(measure_count, measure_duration) ==
    RatMul(RatInt(measure_count), measure_duration)

RECURSIVE SumDurations(_, _, _)
\* The loop of get_duration over the entries from position k on.
SumDurations(entries, k, measure_duration) ==
    IF k > Len(entries) THEN <<0, 1>>
    ELSE RatAdd(lieddeel_duration(entries[k][2].val, measure_duration),
                SumDurations(entries, k + 1, measure_duration))

get_duration_NoPickup(entries, tempo, timesig, beats_up_front) ==
    IF ~tempo.has \/ tempo.val = 0 \/ ~timesig.has THEN ReturnedNone
    ELSE LET beat_duration == RatDiv(<<1, 1>>, Rat(tempo.val, 60))
             parts == PartitionSlash(timesig.val)
             measure_duration == RatMul(RatInt(ParseInt(parts[1]).val), beat_duration)
         IN  IF ~ParseInt(parts[1]).has \/ ~ParseInt(parts[2]).has THEN Raised("ValueError")
             ELSE IF \E k \in 1..Len(entries) : ~entries[k][2].has THEN Raised("TypeError")
             ELSE Returned(SumDurations(entries, 1, measure_duration))

\* get_duration; entries is a list, tempo an int or None, timesig a str or
\* None, beats_up_front a number.
get_duration(entries, tempo, timesig, beats_up_front) ==
    IF ~tempo.has \/ tempo.val = 0 \/ ~timesig.has THEN ReturnedNone
    ELSE LET beats_per_second == Rat(tempo.val, 60)
             beat_duration == RatDiv(<<1, 1>>, beats_per_second)
             parts == PartitionSlash(timesig.val)
             beats_per_measure == ParseInt(parts[1])
             beat_base == ParseInt(parts[2])
             measure_duration == RatMul(RatInt(beats_per_measure.val), beat_duration)
         IN  IF ~beats_per_measure.has \/ ~beat_base.has THEN Raised("ValueError")
             ELSE IF \E k \in 1..Len(entries) : ~entries[k][2].has THEN Raised("TypeError")
             ELSE Returned(RatAdd(SumDurations(entries, 1, measure_duration),
                                  RatMul(beats_up_front, beat_duration)))

\* What the per-file readers can return for a section file.
LieddeelNames == {"couplet", "refrein"}
MeasureCounts == {None, Some(1), Some(2), Some(8)}
Tempos == {None, Some(0), Some(90), Some(120)}
TimeSigs == {None, Some(<<"4", "/", "4">>), Some(<<"6", "/", "8">>), Some(<<"Common">>), Some(<<"4">>)}
PickupBeats == {<<0, 1>>, <<1, 1>>, <<3, 2>>}

InitProcess ==
    /\ pc = "proc_loop"
    /\ proc = [measurecount_and_starttime_per_lieddeel |-> <<>>,
               chords_per_lieddeel |-> {},
               tempo |-> None, timesig |-> None, pickup_beats |-> <<0, 1>>,
               known_from |-> 0,
               total_duration_seconds |-> ReturnedNone,
               labeltrack |-> ReturnedNone]
    /\ DocIdle /\ CatIdle /\ ScanIdle /\ AnaIdle
    /\ ChordsIdle /\ PickupIdle /\ MuteIdle /\ RestIdle

\* One iteration of the loop of process_lieddelen.  The results of
\* extract_tempo_and_timesig, get_pickup_beats and get_measure_count for the
\* section file are inputs; of chords_per_lieddeel the keys are kept.
\* known_from records the first section handled with tempo and timesig set.
ProcessLieddeel ==
    /\ pc = "proc_loop"
    /\ Len(proc.measurecount_and_starttime_per_lieddeel) < MaxLieddelen
    /\ \E lieddeel \in LieddeelNames, measure_count \in MeasureCounts,
          file_tempo \in Tempos, file_timesig \in TimeSigs, file_pickup \in PickupBeats :
         LET extract == ~proc.tempo.has /\ ~proc.timesig.has
             tempo == IF extract THEN file_tempo ELSE proc.tempo
             timesig == IF extract THEN file_timesig ELSE proc.timesig
             pickup_beats == IF extract THEN file_pickup ELSE proc.pickup_beats
             entries == proc.measurecount_and_starttime_per_lieddeel
             lieddeel_starttime == get_duration(entries, tempo, timesig, pickup_beats)
         IN  \* the file is read for tempo, timesig and pickup only under extract
             /\ ~extract =>
                   /\ file_tempo = None /\ file_timesig = None /\ file_pickup = <<0, 1>>
             /\ IF lieddeel_starttime.kind = "raise"
                THEN /\ pc' = "raised"
                     /\ proc' = [proc EXCEPT !.tempo = tempo, !.timesig = timesig,
                                             !.pickup_beats = pickup_beats]
                ELSE /\ pc' = pc
                     /\ proc' = [proc EXCEPT
                           !.tempo = tempo, !.timesig = timesig,
                           !.pickup_beats = pickup_beats,
                           !.measurecount_and_starttime_per_lieddeel =
                               Append(@, <<lieddeel, measure_count, lieddeel_starttime>>),
                           !.chords_per_lieddeel = @ \cup {lieddeel},
                           !.known_from =
                               IF @ = 0 /\ tempo.has /\ timesig.has
                               THEN Len(entries) + 1 ELSE @]
    /\ UNCHANGED notProc

\* return of process_lieddelen
ProcessReturn ==
    /\ pc = "proc_loop"
    /\ pc' = "proc_done"
    /\ UNCHANGED <<proc, notProc>>

\* write_latex_file: total_duration_seconds = get_duration(...)
TotalDuration ==
    /\ pc = "proc_done"
    /\ LET total == get_duration(proc.measurecount_and_starttime_per_lieddeel,
                                 proc.tempo, proc.timesig, proc.pickup_beats)
       IN  /\ proc' = [proc EXCEPT !.total_duration_seconds = total]
           /\ pc' = IF total.kind = "raise" THEN "raised" ELSE "latex"
    /\ UNCHANGED notProc

\* f"{time:.6f}": the value rounded to six decimals, as its count of
\* millionths; a rational <<n, d>> with n >= 0.
format_six(time) == (2 * time[1] * 1000000 + time[2]) \div (2 * time[2])

RECURSIVE labeltrack_lines(_)
\* The loop of write_labeltrack_file: the lines written, or the TypeError
\* of formatting a start that is None.
labeltrack_lines(triples) ==
    IF triples = <<>> THEN Returned(<<>>)
    ELSE LET lieddeel == Head(triples)[1]
             time == Head(triples)[3]
             rest == labeltrack_lines(Tail(triples))
         IN  IF time.kind # "value" THEN Raised("TypeError")
             ELSE IF rest.kind = "raise" THEN rest
             ELSE Returned(<<<<format_six(time.val), format_six(time.val), lieddeel>>>>
                           \o rest.val)

\* main: write_labeltrack_file(labeltrack_file, measurecount_and_starttime_per_lieddeel)
WriteLabeltrack ==
    /\ pc = "latex"
    /\ LET file == labeltrack_lines(proc.measurecount_and_starttime_per_lieddeel)
       IN  /\ proc' = [proc EXCEPT !.labeltrack = file]
           /\ pc' = IF file.kind = "raise" THEN "labeltrack_raised" ELSE "labeltrack"
    /\ UNCHANGED notProc

NextProcess == ProcessLieddeel \/ ProcessReturn \/ TotalDuration \/ WriteLabeltrack

SpecProcess == InitProcess /\ [][NextProcess]_vars

----------------------------------------------------------------------------
(* Properties of get_duration and process_lieddelen *)

Entries == proc.measurecount_and_starttime_per_lieddeel

TimesigParts == PartitionSlash(proc.timesig.val)

\* The time signature is missing or of the form integer/integer.
TimesigForm ==
    ~proc.timesig.has \/ (ParseInt(TimesigParts[1]).has /\ ParseInt(TimesigParts[2]).has)

SecondsPerBeat == Rat(60, proc.tempo.val)

SecondsPerMeasure == Rat(ParseInt(TimesigParts[1]).val * 60, proc.tempo.val)

RECURSIVE MeasuresOf(_, _)
\* The sum of the measure counts of the first n entries.
MeasuresOf(entries, n) ==
    IF n = 0 THEN 0 ELSE MeasuresOf(entries, n - 1) + entries[n][2].val

\* pickupBeats x secondsPerBeat + (measures of the first n entries) x secondsPerMeasure
SecondsUpTo(n) ==
    RatAdd(RatMul(RatInt(MeasuresOf(Entries, n)), SecondsPerMeasure),
           RatMul(proc.pickup_beats, SecondsPerBeat))

\* C12: for entries with integer measure counts and a time signature b/u the
\* total duration is None when the tempo is missing or zero or the time
\* signature is missing, and otherwise the sum of measureCount x b x 60/tempo
\* over the entries plus pickupBeats x 60/tempo.
DurationFormula ==
    (/\ pc \in {"latex", "raised"}
     /\ \A k \in 1..Len(Entries) : Entries[k][2].has
     /\ TimesigForm)
    => proc.total_duration_seconds =
          IF ~proc.tempo.has \/ proc.tempo.val = 0 \/ ~proc.timesig.has
          THEN ReturnedNone
          ELSE Returned(SecondsUpTo(Len(Entries)))

\* Tempo 120, '4/4', one section of 8 measures, no pickup: 16 seconds.
DurationWitness ==
    /\ pc = "latex"
    /\ proc.tempo = Some(120)
    /\ proc.timesig = Some(<<"4", "/", "4">>)
    /\ proc.pickup_beats = <<0, 1>>
    /\ Len(Entries) = 1
    /\ Entries[1][2] = Some(8)
    /\ proc.total_duration_seconds = Returned(<<16, 1>>)

\* C13: neither get_duration nor the loop of process_lieddelen that calls it
\* raises, whatever the measure counts and the time signature are.
DurationNeverRaises == pc # "raised"

\* C14: when tempo and time signature are known from the first section on,
\* the start offset of the k-th entry is the pickup offset plus the summed
\* durations of the entries before it; the first entry starts at the pickup
\* offset and the offsets do not decrease.
StartOffsets ==
    (pc \in {"proc_loop", "proc_done", "latex"} /\ proc.known_from = 1 /\ proc.tempo.val # 0)
    => /\ \A k \in 1..Len(Entries) : Entries[k][3] = Returned(SecondsUpTo(k - 1))
       /\ Len(Entries) >= 1 =>
             Entries[1][3] = Returned(RatMul(proc.pickup_beats, SecondsPerBeat))
       /\ \A k \in 2..Len(Entries) : RatLeq(Entries[k - 1][3].val, Entries[k][3].val)

\* Tempo 90, '6/8', a pickup of 3/2 beats, sections of 2 and 8 measures and a
\* third one: the sections start at 1, 9 and 41 seconds.
StartOffsetsWitness ==
    /\ pc = "proc_done"
    /\ Len(Entries) = 3
    /\ proc.tempo = Some(90)
    /\ proc.pickup_beats = <<3, 2>>
    /\ Entries[1][3] = Returned(<<1, 1>>)
    /\ Entries[2][3] = Returned(<<9, 1>>)
    /\ Entries[3][3] = Returned(<<41, 1>>)

----------------------------------------------------------------------------
(* nwc-concat.py: extract_chords_from_first_staff *)

\* str(n) for the numbers of the model
IntText(n) == <<IntWords[n + 1]>>

\* text_content of a |Text| line; None when the test text_end > text_start fails.
TextContent(line) ==
    LET text_start == Find(line, <<"Text:", Quote>>, 1) + 2
        text_end == Find(line, <<Quote>>, text_start)
    IN  IF text_end > text_start THEN Some(SubSeq(line, text_start, text_end - 1)) ELSE None

\* The chord a line announces: the text after 'akk:', None for any other line.
ChordOf(line) ==
    IF StartsWith(line, NWC_PREFIX_TEXT) /\ Contains(line, <<"Text:", Quote>>)
       /\ TextContent(line).has /\ StartsWith(Strip(TextContent(line).val), <<"akk:">>)
    THEN Some(Strip(Tail(Strip(TextContent(line).val))))
    ELSE None

\* f"{current_chord}({current_measures})"
WithSpan(current_chord, current_measures) ==
    current_chord \o <<"(">> \o IntText(current_measures) \o <<")">>

\* "Save previous chord if any", at a new chord marker
ClosedByMarker(chord_list, current_chord, current_measures) ==
    IF current_measures > 1 THEN Append(chord_list, WithSpan(current_chord, current_measures))
    ELSE Append(chord_list, current_chord)

\* "Handle the last chord", after the loop
ClosedByEnd(chord_list, current_chord, current_measures) ==
    IF current_measures > 1 THEN Append(chord_list, WithSpan(current_chord, current_measures))
    ELSE IF current_measures = 1 THEN Append(chord_list, current_chord)
    ELSE chord_list

\* '|Dur:' in line
HasDur(line) == Contains(line, <<"|", "Dur:">>)

\* One iteration of the loop over first_staff.
ChordStep(st, line) ==
    LET new == ChordOf(line)
        a == IF new.has
             THEN [st EXCEPT
                     !.chord_list = IF st.current_chord.has
                                    THEN ClosedByMarker(@, st.current_chord.val, st.current_measures)
                                    ELSE @,
                     !.current_chord = Some(new.val),
                     !.current_measures = 0,
                     !.current_measure_has_dur = FALSE]
             ELSE st
        b == IF StartsWith(line, <<"|", "Bar", "|">>) \/ line = <<"|", "Bar">>
             THEN [a EXCEPT
                     !.current_measures =
                         IF a.current_chord.has /\ a.current_measure_has_dur THEN @ + 1 ELSE @,
                     !.current_measure_has_dur = FALSE]
             ELSE a
    IN  IF HasDur(line) THEN [b EXCEPT !.current_measure_has_dur = TRUE] ELSE b

\* The count read back from a rendered chord: int(chord.split('(')[1].rstrip(')')),
\* 1 when that raises and 1 for a chord without '('.
RECURSIVE RStripParen(_)
RStripParen(text) ==
    IF text # <<>> /\ text[Len(text)] = ")" THEN RStripParen(SubSeq(text, 1, Len(text) - 1))
    ELSE text

CountOf(chord) ==
    IF ~Contains(chord, <<"(">>) THEN 1
    ELSE LET n == ParseInt(RStripParen(Split(chord, "(")[2]))
         IN  IF n.has THEN n.val ELSE 1

RECURSIVE total_from_chords(_)
total_from_chords(chord_list) ==
    IF chord_list = <<>> THEN 0
    ELSE CountOf(Head(chord_list)) + total_from_chords(Tail(chord_list))

\* The statements after the loop: the last chord, the total, the return value.
ChordResult(st) ==
    LET last == st.current_measures + (IF st.current_measure_has_dur THEN 1 ELSE 0)
        chord_list == IF st.current_chord.has
                      THEN ClosedByEnd(st.chord_list, st.current_chord.val, last)
                      ELSE st.chord_list
    IN  IF chord_list = <<>>
        THEN [chord_list |-> chord_list, chord_string |-> <<"-">>, total |-> 0, is_valid |-> TRUE]
        ELSE [chord_list |-> chord_list, chord_string |-> JoinWith(chord_list, ", "),
              total |-> total_from_chords(chord_list), is_valid |-> TRUE]

ChordLine(symbol) ==
    NWC_PREFIX_TEXT \o <<"Text:", Quote, "akk:">> \o symbol \o <<Quote, "|", "Font:StaffBold">>

ChordAlphabet ==
    {ChordLine(<<"C">>), ChordLine(<<"G7">>), ChordLine(<<"C", "(", "add9", ")">>),
     NoteLine, DoubleBarLine, PlainBarLine}

ChordFiles ==
    {<<HeaderLine, AddStaffLine(<<"A">>)>> \o body \o <<NWC_END_MARKER>> :
        body \in SeqsUpTo(ChordAlphabet, MaxChordStaff)}
    \cup {<<HeaderLine, NWC_END_MARKER>>}

NoChordResult == [chord_list |-> <<>>, chord_string |-> <<>>, total |-> 0, is_valid |-> FALSE]

InitChords ==
    /\ pc = "chords_start"
    /\ \E file \in ChordFiles :
         chords = [file |-> file, first_staff |-> <<>>, i |-> 1,
                   chord_list |-> <<>>, current_chord |-> None, current_measures |-> 0,
                   current_measure_has_dur |-> FALSE, result |-> NoChordResult]
    /\ DocIdle /\ CatIdle /\ ScanIdle /\ AnaIdle
    /\ ProcIdle /\ PickupIdle /\ MuteIdle /\ RestIdle

\* _, staff_sections = parse_nwctxt(filepath); first_staff = staff_sections[0]
ChordsParse ==
    /\ pc = "chords_start"
    /\ LET parsed == parse_nwctxt(chords.file)
       IN  IF Len(parsed.staff_sections) < 1
           THEN /\ chords' = [chords EXCEPT !.result =
                       [chord_list |-> <<>>, chord_string |-> <<"-">>, total |-> 0,
                        is_valid |-> TRUE]]
                /\ pc' = "chords_done"
           ELSE /\ chords' = [chords EXCEPT
                       !.first_staff = parsed.heap[parsed.staff_sections[1]]]
                /\ pc' = "chords_loop"
    /\ UNCHANGED notChords

\* for line in first_staff: ...
ChordsLine ==
    /\ pc = "chords_loop"
    /\ chords.i <= Len(chords.first_staff)
    /\ LET st == ChordStep(chords, chords.first_staff[chords.i])
       IN  chords' = [st EXCEPT !.i = @ + 1]
    /\ UNCHANGED <<pc, notChords>>

\* the last chord, total_from_chords and the return
ChordsReturn ==
    /\ pc = "chords_loop"
    /\ chords.i > Len(chords.first_staff)
    /\ chords' = [chords EXCEPT !.result = ChordResult(chords)]
    /\ pc' = "chords_done"
    /\ UNCHANGED notChords

NextChords == ChordsParse \/ ChordsLine \/ ChordsReturn

SpecChords == InitChords /\ [][NextChords]_vars

----------------------------------------------------------------------------
(* Properties of extract_chords_from_first_staff *)

\* The entry of a chord with a counted span: none for span 0, the bare symbol
\* for span 1, 'symbol(n)' for span n >= 2.
WithEntry(chord_list, symbol, span) ==
    IF span >= 2 THEN Append(chord_list, symbol \o <<"(">> \o IntText(span) \o <<")">>)
    ELSE IF span = 1 THEN Append(chord_list, symbol)
    ELSE chord_list

\* C16: a chord gets an entry only when its counted span is at least 1,
\* whether a later marker or the end of the staff closes it; span 1 is the
\* bare symbol and span n >= 2 is 'symbol(n)'; entries are appended in
\* marker order and no other step changes the list.
EntryOnlyForCountedSpan ==
    [][ /\ (pc = "chords_loop" /\ pc' = "chords_loop" /\ chords'.i = chords.i + 1) =>
            chords'.chord_list =
                IF ChordOf(chords.first_staff[chords.i]).has /\ chords.current_chord.has
                THEN WithEntry(chords.chord_list, chords.current_chord.val,
                               chords.current_measures)
                ELSE chords.chord_list
        /\ (pc = "chords_loop" /\ pc' = "chords_done") =>
            chords'.result.chord_list =
                IF chords.current_chord.has
                THEN WithEntry(chords.chord_list, chords.current_chord.val,
                               chords.current_measures
                                  + (IF chords.current_measure_has_dur THEN 1 ELSE 0))
                ELSE chords.chord_list ]_vars

RECURSIVE SoundingFrom(_, _, _)
\* The measures with a note or rest among lines[i..], has_dur telling whether
\* the measure in progress has one already.
SoundingFrom(lines, i, has_dur) ==
    IF i > Len(lines) THEN (IF has_dur THEN 1 ELSE 0)
    ELSE IF IsBarElement(lines[i])
    THEN (IF has_dur THEN 1 ELSE 0) + SoundingFrom(lines, i + 1, FALSE)
    ELSE SoundingFrom(lines, i + 1, has_dur \/ HasDur(lines[i]))

\* The measures with sounding content from the first chord marker on.
SoundingMeasures(lines) ==
    LET markers == {i \in 1..Len(lines) : ChordOf(lines[i]).has}
    IN  IF markers = {} THEN 0
        ELSE SoundingFrom(lines, (CHOOSE i \in markers : \A j \in markers : i <= j) + 1, FALSE)

\* C15: the total returned with the chord string is the number of measures
\* with sounding content from the first chord marker to the end of the
\* staff: every such measure is in exactly one span.
SpansCoverSoundingMeasures ==
    (pc = "chords_done" /\ chords.first_staff # <<>>) =>
        chords.result.total = SoundingMeasures(chords.first_staff)

----------------------------------------------------------------------------
(* nwc-concat.py: get_pickup_beats.  The lines are those of readlines(),    *)
(* each with its line ending.                                               *)

\* text.split('|')[0]
UpToPipe(text) == BeforeFirst(text, <<"|">>)

\* text.split(p)[1], for a p that occurs in text
AfterFirst(text, p) ==
    LET rest == SubSeq(text, Find(text, p, 1) + Len(p), Len(text))
    IN  BeforeFirst(rest, p)

\* The first line with a prefix, 0 when there is none.
FirstWith(lines, prefix) ==
    LET hits == {i \in 1..Len(lines) : StartsWith(lines[i], prefix)}
    IN  IF hits = {} THEN 0 ELSE CHOOSE i \in hits : \A j \in hits : i <= j

\* Condition 1: the first |PgSetup| line has '|StartingBar:0'.
has_starting_bar_zero(lines) ==
    LET i == FirstWith(lines, <<"|", "PgSetup", "|">>)
    IN  i # 0 /\ Contains(lines[i], <<"|", "StartingBar:", "0">>)

\* int(sig.split('/')[1]) of a |TimeSig|Signature: line; None when it raises.
DenominatorOf(line) ==
    LET sig == UpToPipe(AfterFirst(line, <<"Signature:">>))
        parts == Split(sig, "/")
    IN  IF Len(parts) < 2 THEN None ELSE ParseInt(Strip(parts[2]))

\* The denominator of the first time signature line that yields one, else 4.
timesig_denominator(lines) ==
    LET hits == {i \in 1..Len(lines) :
                    /\ StartsWith(lines[i], NWC_PREFIX_TIMESIG \o <<"Signature:">>)
                    /\ DenominatorOf(lines[i]).has}
    IN  IF hits = {} THEN 4
        ELSE DenominatorOf(lines[CHOOSE i \in hits : \A j \in hits : i <= j]).val

\* Condition 2: the duration field of the first |Rest|Dur: line, None when a
\* line starting with '|Bar' comes first or there is no such rest.
first_rest_dur(lines) ==
    LET stops == {i \in 1..Len(lines) :
                     \/ StartsWith(lines[i], <<"|", "Bar">>)
                     \/ StartsWith(lines[i], NWC_PREFIX_REST \o <<"Dur:">>)}
        i == CHOOSE i \in stops : \A j \in stops : i <= j
    IN  IF stops = {} \/ StartsWith(lines[i], <<"|", "Bar">>) THEN None
        ELSE Some(UpToPipe(AfterFirst(lines[i], <<"|", "Dur:">>)))

duration_map ==
    [Whole |-> <<1, 1>>, Half |-> <<1, 2>>, 4th |-> <<1, 4>>, 8th |-> <<1, 8>>,
     16th |-> <<1, 16>>, 32nd |-> <<1, 32>>, 64th |-> <<1, 64>>]

\* duration_map.get(dur_base, 0.0), dur_base without its line ending
note_value_of(dur) ==
    LET dur_base == SelectSeq(Split(dur, ",")[1], LAMBDA t : t # "\n")
    IN  IF Len(dur_base) = 1 /\ dur_base[1] \in DOMAIN duration_map
        THEN duration_map[dur_base[1]] ELSE <<0, 1>>

dotted_NoDouble(dur) ==
    IF Contains(dur, <<",", "Dotted">>) \/ Contains(dur, <<",", "Dot">>) THEN <<3, 2>>
    ELSE <<1, 1>>
\* ',Dotted' or ',Dot' in the duration: 1.5; elif ',DblDotted': 1.75
dotted(dur) ==
    IF Contains(dur, <<",", "Dotted">>) \/ Contains(dur, <<",", "Dot">>) THEN <<3, 2>>
    ELSE IF Contains(dur, <<",", "DblDotted">>) THEN <<7, 4>>
    ELSE <<1, 1>>

\* ',Triplet' in the duration: 2/3
triplet(dur) ==
    IF \E w \in {"Triplet", "Triplet=First", "Triplet=End"} : Contains(dur, <<",", w>>)
    THEN <<2, 3>> ELSE <<1, 1>>

get_pickup_beats_NoFlag(lines) ==
    LET dur == first_rest_dur(lines)
    IN  IF ~dur.has THEN <<0, 1>>
        ELSE RatDiv(RatMul(RatMul(note_value_of(dur.val), dotted(dur.val)), triplet(dur.val)),
                    Rat(1, timesig_denominator(lines)))
get_pickup_beats(lines) ==
    LET dur == first_rest_dur(lines)
        note_value == RatMul(RatMul(note_value_of(dur.val), dotted(dur.val)), triplet(dur.val))
        beat_unit_value == Rat(1, timesig_denominator(lines))
    IN  IF ~has_starting_bar_zero(lines) THEN <<0, 1>>
        ELSE IF ~dur.has THEN <<0, 1>>
        ELSE RatDiv(note_value, beat_unit_value)

Ended(line) == line \o <<"\n">>

PgSetupLine(n) == <<"|", "PgSetup", "|", "StartingBar:", n, "|", "CastList:", "N">>

RestDur(base, mods) == NWC_PREFIX_REST \o <<"Dur:", base>> \o mods

DurBases == {"Whole", "Half", "4th", "8th", "16th"}

DurMods ==
    {<<>>, <<",", "Dotted">>, <<",", "DblDotted">>, <<",", "Triplet=First">>,
     <<",", "Dotted", ",", "Triplet">>, <<"|", "Visibility:Never">>}

\* Header, one staff: an optional time signature, a lead of notes and bars,
\* an optional rest, one more line.
PickupFiles ==
    {[k \in 1..Len(f) |-> Ended(f[k])] :
        f \in {<<HeaderLine>> \o setup \o <<AddStaffLine(<<"A">>)>> \o sig \o lead \o rest \o tail
                  \o <<NWC_END_MARKER>> :
                setup \in {<<>>, <<PgSetupLine("0")>>, <<PgSetupLine("1")>>},
                sig \in {<<>>, <<TimeSigLine>>,
                         <<NWC_PREFIX_TIMESIG \o <<"Signature:", "6", "/", "8">>>>,
                         <<NWC_PREFIX_TIMESIG \o <<"Signature:", "Common">>>>},
                lead \in SeqsUpTo({NoteLine, PlainBarLine, DoubleBarLine}, MaxPickupLead),
                rest \in {<<>>} \cup {<<RestDur(b, m)>> : b \in DurBases, m \in DurMods},
                tail \in {<<>>, <<NoteLine>>, <<PlainBarLine>>}}}

InitPickup ==
    /\ pc = "pickup_start"
    /\ \E file \in PickupFiles : pickup = [lines |-> file, beats |-> <<0, 1>>]
    /\ DocIdle /\ CatIdle /\ ScanIdle /\ AnaIdle
    /\ ProcIdle /\ ChordsIdle /\ MuteIdle /\ RestIdle

\* pickup_beats = get_pickup_beats(lieddeel_nwctxt)
DetectPickupBeats ==
    /\ pc = "pickup_start"
    /\ pickup' = [pickup EXCEPT !.beats = get_pickup_beats(pickup.lines)]
    /\ pc' = "pickup_done"
    /\ UNCHANGED notPickup

NextPickup == DetectPickupBeats

SpecPickup == InitPickup /\ [][NextPickup]_vars

----------------------------------------------------------------------------
(* Properties of get_pickup_beats *)

TokensOf(line) == {line[k] : k \in 1..Len(line)}

FlagPresent ==
    \E i \in 1..Len(pickup.lines) :
        /\ StartsWith(pickup.lines[i], <<"|", "PgSetup", "|">>)
        /\ Contains(pickup.lines[i], <<"StartingBar:", "0">>)

IsPickupRest(i) == StartsWith(pickup.lines[i], NWC_PREFIX_REST)
IsPickupNote(i) == StartsWith(pickup.lines[i], NWC_PREFIX_NOTE)
IsPickupBar(i) == IsBarElement(Strip(pickup.lines[i]))

HasRest == \E i \in 1..Len(pickup.lines) : IsPickupRest(i)

\* The first rest of the document.
FirstRest ==
    CHOOSE i \in 1..Len(pickup.lines) :
        IsPickupRest(i) /\ \A j \in 1..(i - 1) : ~IsPickupRest(j)

BarBeforeFirstRest == HasRest /\ \E j \in 1..(FirstRest - 1) : IsPickupBar(j)

NoteBeforeFirstRest == HasRest /\ \E j \in 1..(FirstRest - 1) : IsPickupNote(j)

\* The first sounding element of the document is a note.
FirstSoundingIsNote ==
    \E i \in 1..Len(pickup.lines) :
        IsPickupNote(i) /\ \A j \in 1..(i - 1) : ~IsPickupRest(j)

\* C17 as stated: the result is 0 without the flag, with a bar before the
\* first rest, and when the first sounding element is a note; it is non-zero
\* only with the flag and a first sounding element that is a rest before
\* every bar.
PickupZeroUnlessRestFirst ==
    pc = "pickup_done" =>
        /\ (~FlagPresent \/ BarBeforeFirstRest \/ FirstSoundingIsNote)
              => pickup.beats = <<0, 1>>
        /\ pickup.beats # <<0, 1>>
              => FlagPresent /\ HasRest /\ ~BarBeforeFirstRest /\ ~NoteBeforeFirstRest

\* C17: the result is 0 without the 'StartingBar:0' flag, without a rest and
\* with a bar before the first rest; it is non-zero only with the flag and a
\* first rest that precedes every bar, notes before that rest or not.
PickupZeroUnlessRestBeforeBar ==
    pc = "pickup_done" =>
        /\ (~FlagPresent \/ ~HasRest \/ BarBeforeFirstRest) => pickup.beats = <<0, 1>>
        /\ pickup.beats # <<0, 1>> => FlagPresent /\ HasRest /\ ~BarBeforeFirstRest

\* The flag, a note, then a quarter rest before any bar: one beat.
PickupAfterNoteWitness ==
    /\ pc = "pickup_done"
    /\ FlagPresent
    /\ NoteBeforeFirstRest
    /\ ~BarBeforeFirstRest
    /\ pickup.beats = <<1, 1>>

\* The whole-note fraction of a duration code.
FractionOf(base) ==
    CASE base = "Whole" -> <<1, 1>>
      [] base = "Half" -> <<1, 2>>
      [] base = "4th" -> <<1, 4>>
      [] base = "8th" -> <<1, 8>>
      [] base = "16th" -> <<1, 16>>
      [] OTHER -> <<0, 1>>

\* The denominator of the declared time signature b/u, 4 when none of that
\* form is declared.
DeclaredDenominator ==
    LET declared == {i \in 1..Len(pickup.lines) :
                        /\ StartsWith(pickup.lines[i], NWC_PREFIX_TIMESIG)
                        /\ "/" \in TokensOf(pickup.lines[i])}
        line == pickup.lines[CHOOSE i \in declared : \A j \in declared : i <= j]
    IN  IF declared = {} THEN 4
        ELSE ParseInt(<<line[Find(line, <<"/">>, 1) + 1]>>).val

\* C18: for a detected pickup rest the result is the whole-note fraction of
\* its duration code, times 3/2 when dotted, 7/4 when double dotted, times
\* 2/3 for a triplet, times the denominator of the declared time signature
\* (4 when none is declared); it is never negative.
PickupBeatsFormula ==
    pc = "pickup_done" =>
        /\ pickup.beats[1] >= 0
        /\ (FlagPresent /\ HasRest /\ ~BarBeforeFirstRest) =>
              LET rest == pickup.lines[FirstRest]
                  marks == TokensOf(UpToPipe(SubSeq(rest, 5, Len(rest))))
                  modifier == IF "Dotted" \in marks THEN <<3, 2>>
                              ELSE IF "DblDotted" \in marks THEN <<7, 4>>
                              ELSE <<1, 1>>
                  tuplet == IF marks \cap {"Triplet", "Triplet=First", "Triplet=End"} # {}
                            THEN <<2, 3>> ELSE <<1, 1>>
              IN  pickup.beats =
                      RatMul(RatMul(RatMul(FractionOf(rest[5]), modifier), tuplet),
                             RatInt(DeclaredDenominator))

\* A double-dotted eighth rest under 6/8: 1/8 x 7/4 x 8 = 7/4 beats.
PickupBeatsWitness ==
    /\ pc = "pickup_done"
    /\ FlagPresent /\ HasRest /\ ~BarBeforeFirstRest
    /\ "DblDotted" \in TokensOf(pickup.lines[FirstRest])
    /\ DeclaredDenominator = 8
    /\ pickup.beats = <<7, 4>>

----------------------------------------------------------------------------
(* services/nwc-conv: set_muted_and_volume and the per-staff temporary file *)

\* The index of the second |StaffProperties| line, 0 for None.
target_index(lines) ==
    LET props == {i \in 1..Len(lines) : StartsWith(lines[i], NWC_PREFIX_STAFF_PROPERTIES)}
        second == {i \in props : Cardinality({j \in props : j < i}) = 1}
    IN  IF second = {} THEN 0 ELSE CHOOSE i \in second : TRUE

VolumeWords == {"0", "100", "127"}

\* re.sub(r'Muted:[YN]', f'Muted:{muted_value}', line)
SubMuted(line, muted_value) ==
    [k \in 1..Len(line) |->
        IF k > 1 /\ line[k - 1] = "Muted:" /\ line[k] \in {"Y", "N"} THEN muted_value
        ELSE line[k]]

\* re.sub(r'Volume:\d+', f'Volume:{volume}', line)
SubVolume(line, volume) ==
    [k \in 1..Len(line) |->
        IF k > 1 /\ line[k - 1] = "Volume:" /\ line[k] \in VolumeWords THEN volume
        ELSE line[k]]

\* NwcStaff.set_muted_and_volume, on the list of lines of the staff
set_muted_and_volume(lines, muted, volume) ==
    LET i == target_index(lines)
    IN  IF i = 0 THEN lines
        ELSE [lines EXCEPT ![i] = SubVolume(SubMuted(@, IF muted THEN "Y" ELSE "N"), volume)]

\* The call on staff i of document d: the list object of the staff changes.
MuteStaffOf(d, i, muted, volume) ==
    [d EXCEPT !.heap[d.staffs[i].lines] = set_muted_and_volume(@, muted, volume)]

FirstPropertiesLine == NWC_PREFIX_STAFF_PROPERTIES \o <<"EndingBar:", "Section Close">>

MutedLine(flag, volume) ==
    NWC_PREFIX_STAFF_PROPERTIES \o <<"Muted:", flag, "|", "Volume:", volume>>

MuteBodies ==
    {<<FirstPropertiesLine, MutedLine("N", "100"), NoteLine>>,
     <<FirstPropertiesLine, MutedLine("Y", "127"), NoteLine>>,
     <<FirstPropertiesLine, NoteLine>>}

MuteStaves == {<<AddStaffLine(<<n>>)>> \o body : n \in {"A", "B"}, body \in MuteBodies}

MuteFiles ==
    {<<HeaderLine>> \o Flatten(staves) \o tail :
        staves \in SeqsUpTo(MuteStaves, MaxMuteStaffs) \ {<<>>},
        tail \in {<<NWC_END_MARKER>>, <<NWC_END_MARKER, NWC_END_MARKER>>}}

InitMute ==
    /\ pc = "convert_start"
    /\ \E file \in MuteFiles :
         mute = [input |-> file, nwc_file |-> NoFile, staff |-> 0, temp_nwc |-> NoFile,
                 i |-> 0, temp |-> <<>>]
    /\ DocIdle /\ CatIdle /\ ScanIdle /\ AnaIdle
    /\ ProcIdle /\ ChordsIdle /\ PickupIdle /\ RestIdle

\* nwc_file = NwcFile(input_path); for staff in staffs_to_convert:
\*     temp_nwc = NwcFile(input_path)
ConvertStaff ==
    /\ pc = "convert_start"
    /\ LET nwc_file == NwcFile(mute.input)
       IN  \E staff \in 1..Len(nwc_file.staffs) :
             mute' = [mute EXCEPT !.nwc_file = nwc_file, !.staff = staff,
                                  !.temp_nwc = NwcFile(mute.input), !.i = 1]
    /\ pc' = "mute_all"
    /\ UNCHANGED notMute

\* set_all_staffs_muted(True, volume=127): one staff of its loop
MuteOne ==
    /\ pc = "mute_all"
    /\ mute.i <= Len(mute.temp_nwc.staffs)
    /\ mute' = [mute EXCEPT !.temp_nwc = MuteStaffOf(@, mute.i, TRUE, "127"), !.i = @ + 1]
    /\ UNCHANGED <<pc, notMute>>

\* temp_nwc.set_staff_muted_by_name(staff.name, False, volume=127)
UnmuteByName ==
    /\ pc = "mute_all"
    /\ mute.i > Len(mute.temp_nwc.staffs)
    /\ LET name == mute.nwc_file.staffs[mute.staff].name
           hits == {k \in 1..Len(mute.temp_nwc.staffs) : mute.temp_nwc.staffs[k].name = name}
           found == CHOOSE k \in hits : \A j \in hits : k <= j
       IN  mute' = [mute EXCEPT !.temp_nwc =
                       IF hits = {} THEN @ ELSE MuteStaffOf(@, found, FALSE, "127")]
    /\ pc' = "unmuted"
    /\ UNCHANGED notMute

\* temp_nwc.write_to_file(temp_path)
WriteTemp ==
    /\ pc = "unmuted"
    /\ mute' = [mute EXCEPT !.temp = write_to_file(mute.temp_nwc)]
    /\ pc' = "temp_written"
    /\ UNCHANGED notMute

NextMute == ConvertStaff \/ MuteOne \/ UnmuteByName \/ WriteTemp

SpecMute == InitMute /\ [][NextMute]_vars

----------------------------------------------------------------------------
(* Properties of the mute operations *)

\* The staff-properties lines of a staff, in order.
PropertiesLines(lines) ==
    SelectSeq([k \in 1..Len(lines) |-> k],
              LAMBDA k : StartsWith(lines[k], NWC_PREFIX_STAFF_PROPERTIES))

\* Two lines that differ at most in the value after 'Muted:' and 'Volume:'.
SameButMutedAndVolume(old, new) ==
    /\ Len(new) = Len(old)
    /\ \A k \in 1..Len(old) :
          new[k] # old[k] => (k > 1 /\ old[k - 1] \in {"Muted:", "Volume:"})

\* The frame of one set_muted_and_volume call on staff t of document d.
MuteFrame(d, e, t) ==
    LET old == StaffLines(d, t)
        new == StaffLines(e, t)
        props == PropertiesLines(old)
    IN  /\ e.header_lines = d.header_lines
        /\ Len(e.staffs) = Len(d.staffs)
        /\ \A i \in 1..Len(d.staffs) : i # t => StaffLines(e, i) = StaffLines(d, i)
        /\ Len(new) = Len(old)
        /\ IF Len(props) < 2 THEN new = old
           ELSE \A k \in 1..Len(old) :
                   IF k = props[2] THEN SameButMutedAndVolume(old[k], new[k])
                   ELSE new[k] = old[k]

\* The staff set_staff_muted_by_name finds for the staff selected.
NamedStaff ==
    LET name == mute.nwc_file.staffs[mute.staff].name
    IN  CHOOSE k \in 1..Len(mute.temp_nwc.staffs) :
            /\ mute.temp_nwc.staffs[k].name = name
            /\ \A j \in 1..(k - 1) : mute.temp_nwc.staffs[j].name # name

\* C19: a call of set_muted_and_volume changes at most the second
\* staff-properties line of its staff, and there only the Muted flag and the
\* Volume value; every other line, every other staff and the header stay as
\* they were, and a staff with fewer than two such lines is left unchanged.
MuteChangesOneLine ==
    [][ /\ (pc = "mute_all" /\ pc' = "mute_all") =>
            MuteFrame(mute.temp_nwc, mute'.temp_nwc, mute.i)
        /\ (pc = "mute_all" /\ pc' = "unmuted") =>
            MuteFrame(mute.temp_nwc, mute'.temp_nwc, NamedStaff) ]_vars

\* A staff is muted when its second staff-properties line has Muted:Y.
IsMuted(lines) ==
    /\ target_index(lines) # 0
    /\ Contains(lines[target_index(lines)], <<"Muted:", "Y">>)

\* C20: in the temporary document written for the selected staff that staff
\* is unmuted and every other staff is muted.
OnlySelectedUnmuted ==
    pc = "temp_written" =>
        \A i \in 1..Len(mute.temp_nwc.staffs) :
            IsMuted(StaffLines(mute.temp_nwc, i)) <=> i # mute.staff

----------------------------------------------------------------------------
(* services/nwc-conv/app/main.py: the conversion service.  Every request   *)
(* runs convert_nwctxt on the one event loop of the server; a request      *)
(* gives way to another one at an await and while its response is sent.    *)
(* The two directories WORK_DIR and OUTPUT_DIR are the same for every      *)
(* request.  A file is its directory, its name and its content.            *)

WORK_DIR == "/tmp/nwc-work"
OUTPUT_DIR == "/tmp/audio-output"

Requests == {"r1", "r2"}
SongTitles == {"s1", "s2", "s3"}
ServiceStaffNames == {STAFF_NAME_BASS, STAFF_NAME_ZANG}

File(dir, name, content) == [dir |-> dir, name |-> name, content |-> content]

\* target_path = WORK_DIR / nwctxt_file.filename
target_path(title) == File(WORK_DIR, <<title>>, {<<title>>})

\* flac_path = OUTPUT_DIR / f"{song_title} {staff.name}.flac"
flac_path(title, staff) == File(OUTPUT_DIR, <<title, staff>>, {<<title, staff>>})

\* zip_path = OUTPUT_DIR / f"{os.urandom(8).hex()}.zip", holding flac_outputs
zip_path(r, flac_outputs) ==
    File(OUTPUT_DIR, <<"zip", r>>, {f.name : f \in flac_outputs})

InitService ==
    /\ pc = "serving"
    /\ \E titles \in [Requests -> SongTitles],
          staffs \in [Requests -> (SUBSET ServiceStaffNames) \ {{}}] :
          /\ \A r, q \in Requests : r # q => titles[r] # titles[q]
          /\ svc = [files |-> {},
                    req |-> [r \in Requests |->
                               [at |-> "received", song |-> titles[r],
                                staffs |-> staffs[r], response |-> ReturnedNone]]]
    /\ DocIdle /\ CatIdle /\ ScanIdle /\ AnaIdle
    /\ ProcIdle /\ ChordsIdle /\ PickupIdle /\ MuteIdle /\ FnIdle

\* Lines 76-123 and the open of line 55: the size and tool checks, then
\* shutil.rmtree of both directories, mkdir, and target_path.open("wb").
PrepareDirs(r) ==
    /\ pc = "serving"
    /\ svc.req[r].at = "received"
    /\ svc' = [svc EXCEPT
                 !.files = {File(WORK_DIR, <<svc.req[r].song>>, {})},
                 !.req[r].at = "uploading"]
    /\ UNCHANGED <<pc, notSvc>>

\* write_uploaded_file_to_disk from its first await up to its last one
\* (await uploaded_file.close()): the chunks go to the file that was opened,
\* which is no longer in the directory when the directory was removed in
\* between.
WriteUpload(r) ==
    /\ pc = "serving"
    /\ svc.req[r].at = "uploading"
    /\ LET empty == File(WORK_DIR, <<svc.req[r].song>>, {})
       IN  svc' = [svc EXCEPT
                     !.files = IF empty \in @
                               THEN (@ \ {empty}) \cup {target_path(svc.req[r].song)}
                               ELSE @,
                     !.req[r].at = "uploaded"]
    /\ UNCHANGED <<pc, notSvc>>

\* Lines 130-304, which hold no await: NwcFile(target_path), the loop over
\* staffs_to_convert with its three conversion steps, the removal of the
\* intermediate files, the ZIP file and the FileResponse.  A missing
\* target_path raises, which the handler turns into a status 500.
ConvertAndZip(r) ==
    /\ pc = "serving"
    /\ svc.req[r].at = "uploaded"
    /\ LET me == svc.req[r]
           flac_outputs == {flac_path(me.song, staff) : staff \in me.staffs}
       IN  IF target_path(me.song) \in svc.files
           THEN svc' = [svc EXCEPT
                          !.files = @ \cup flac_outputs \cup {zip_path(r, flac_outputs)},
                          !.req[r].at = "responding"]
           ELSE svc' = [svc EXCEPT
                          !.req[r].at = "done",
                          !.req[r].response = Raised("HTTPException")]
    /\ UNCHANGED <<pc, notSvc>>

\* FileResponse: the file at zip_path is read when the response is sent.
SendResponse(r) ==
    /\ pc = "serving"
    /\ svc.req[r].at = "responding"
    /\ LET zips == {f \in svc.files : f.dir = OUTPUT_DIR /\ f.name = <<"zip", r>>}
       IN  svc' = [svc EXCEPT
                     !.req[r].at = "done",
                     !.req[r].response =
                         IF zips = {} THEN Raised("RuntimeError")
                         ELSE Returned((CHOOSE f \in zips : TRUE).content)]
    /\ UNCHANGED <<pc, notSvc>>

NextService ==
    \E r \in Requests :
        PrepareDirs(r) \/ WriteUpload(r) \/ ConvertAndZip(r) \/ SendResponse(r)

SpecService == InitService /\ [][NextService]_vars

\* What request r returns when no other request is served.
AloneResponse(r) == {<<svc.req[r].song, staff>> : staff \in svc.req[r].staffs}

\* C21: two requests for different songs that are served concurrently do not
\* interfere: each returns exactly the outputs it returns when run alone.
ConcurrentRequestsDoNotInterfere ==
    pc = "serving" =>
        \A r \in Requests :
            svc.req[r].at = "done" =>
                /\ svc.req[r].response.kind = "value"
                /\ svc.req[r].response.val = AloneResponse(r)

----------------------------------------------------------------------------
(* nwc_analyze.py: parse_lyric_text on its own *)

ExamplePayload ==
    <<"Al", "-", "le", "-", "lu", "-", "ja", " ", "zingt", " ", "het", " ", "koor">>

LyricAlphabet == {"Al", "le", "_", " ", "-", "\\'", "\\n", "\t"}

LyricPayloads == SeqsUpTo(LyricAlphabet, MaxLyricLen) \cup {ExamplePayload}

LyricOf(payload) == NWC_PREFIX_LYRIC1 \o <<"Text:", Quote>> \o payload \o <<Quote>>

InitTokenize ==
    /\ pc = "tokenize"
    /\ \E payload \in LyricPayloads :
          fn = [payload |-> payload, lyric_line |-> LyricOf(payload), syllables |-> <<>>]
    /\ DocIdle /\ CatIdle /\ ScanIdle /\ AnaIdle
    /\ ProcIdle /\ ChordsIdle /\ PickupIdle /\ MuteIdle /\ SvcIdle

\* syllables = parse_lyric_text(lyric_line)
TokenizeLyrics ==
    /\ pc = "tokenize"
    /\ fn' = [fn EXCEPT !.syllables = parse_lyric_text(fn.lyric_line)]
    /\ pc' = "tokenized"
    /\ UNCHANGED notFn

NextTokenize == TokenizeLyrics

SpecTokenize == InitTokenize /\ [][NextTokenize]_vars

----------------------------------------------------------------------------
(* Properties of parse_lyric_text *)

\* The payload with the apostrophe escape and the line-break escape replaced.
Unescaped ==
    [k \in 1..Len(fn.payload) |->
        CASE fn.payload[k] = "\\'" -> "'"
          [] fn.payload[k] = "\\n" -> " "
          [] OTHER -> fn.payload[k]]

IsSeparator(t) == t \in {" ", "-"}

\* The first and last position of every maximal run without separator.
RunBounds(text) ==
    {<<a, b>> \in (1..Len(text)) \X (1..Len(text)) :
        /\ a <= b
        /\ \A k \in a..b : ~IsSeparator(text[k])
        /\ a = 1 \/ IsSeparator(text[a - 1])
        /\ b = Len(text) \/ IsSeparator(text[b + 1])}

RECURSIVE RunsFrom(_, _)
\* The maximal runs that start at position from or later, in order.
RunsFrom(text, from) ==
    LET later == {r \in RunBounds(text) : r[1] >= from}
    IN  IF later = {} THEN <<>>
        ELSE LET r == CHOOSE x \in later : \A y \in later : x[1] <= y[1]
             IN  <<SubSeq(text, r[1], r[2])>> \o RunsFrom(text, r[2] + 1)

MaximalRuns == RunsFrom(Unescaped, 1)

\* The runs without their leading and trailing white space, those that are
\* white space only left out.
StrippedRuns == SelectSeq([k \in 1..Len(MaximalRuns) |-> Strip(MaximalRuns[k])],
                          LAMBDA run : run # <<>>)

----------------------------------------------------------------------------
(* nwc-concat.py: extract_tempo_and_timesig *)

\* int(tempo_str) for the tempo values of the model
int_of_tempo(text) ==
    IF text = <<"90">> THEN Some(90)
    ELSE IF text = <<"120">> THEN Some(120)
    ELSE ParseInt(text)

\* The tempo found in one line, None when the line gives none.
tempo_of_line(line) ==
    IF StartsWith(line, NWC_PREFIX_TEMPO) /\ Contains(line, <<"Tempo:">>)
    THEN int_of_tempo(UpToPipe(AfterFirst(line, <<"Tempo:">>)))
    ELSE None

timesig_of_line_AnyField(line) ==
    IF StartsWith(line, NWC_PREFIX_TIMESIG) /\ Contains(line, <<"Signature:">>)
    THEN Some(UpToPipe(AfterFirst(line, <<"Signature:">>)))
    ELSE None

\* The time signature found in one line, None when the line gives none.
timesig_of_line(line) ==
    IF StartsWith(line, NWC_PREFIX_TIMESIG \o <<"Signature:">>)
    THEN Some(UpToPipe(AfterFirst(line, NWC_PREFIX_TIMESIG \o <<"Signature:">>)))
    ELSE None

RECURSIVE TempoTimesigFrom(_, _, _, _)
\* The loop over staff_lines from line i on.
TempoTimesigFrom(staff_lines, i, tempo, timesig) ==
    IF i > Len(staff_lines) \/ (tempo.has /\ timesig.has)
    THEN [tempo |-> tempo, timesig |-> timesig]
    ELSE TempoTimesigFrom(staff_lines, i + 1,
            IF tempo.has THEN tempo ELSE tempo_of_line(staff_lines[i]),
            IF timesig.has THEN timesig ELSE timesig_of_line(staff_lines[i]))

extract_tempo_and_timesig(lines) ==
    LET d == NwcFile(lines)
    IN  IF Len(d.staffs) < 1 THEN [tempo |-> None, timesig |-> None]
        ELSE TempoTimesigFrom(StaffLines(d, 1), 1, None, None)

TempoLineOf(value) == NWC_PREFIX_TEMPO \o <<"Tempo:", value, "|", "Pos:7">>
BaseTempoLine == NWC_PREFIX_TEMPO \o <<"Base:", "Half", "|", "Tempo:", "90">>
TimeSigLineOf(n, d) == NWC_PREFIX_TIMESIG \o <<"Signature:", n, "/", d>>
HiddenTimeSigLine ==
    NWC_PREFIX_TIMESIG \o <<"Visibility:", "Never", "|", "Signature:", "6", "/", "8">>

SetupAlphabet ==
    {TempoLineOf("120"), TempoLineOf("90"), TempoLineOf("fast"), BaseTempoLine,
     TimeSigLineOf("4", "4"), TimeSigLineOf("6", "8"), HiddenTimeSigLine, NoteLine}

SetupFiles ==
    {<<HeaderLine>> \o staffs \o <<NWC_END_MARKER>> :
        staffs \in {<<>>, <<TempoLineOf("90"), TimeSigLineOf("6", "8")>>}
                   \cup {<<AddStaffLine(STAFF_NAME_BASS)>> \o body \o second :
                            body \in SeqsUpTo(SetupAlphabet, MaxSetupLines),
                            second \in {<<>>, <<AddStaffLine(STAFF_NAME_ZANG),
                                                TempoLineOf("90"), TimeSigLineOf("6", "8")>>}}}

InitExtract ==
    /\ pc = "extract"
    /\ \E lines \in SetupFiles :
          fn = [filepath |-> lines, tempo |-> None, timesig |-> None]
    /\ DocIdle /\ CatIdle /\ ScanIdle /\ AnaIdle
    /\ ProcIdle /\ ChordsIdle /\ PickupIdle /\ MuteIdle /\ SvcIdle

\* tempo, timesig = extract_tempo_and_timesig(filepath)
ExtractTempoAndTimesig ==
    /\ pc = "extract"
    /\ LET found == extract_tempo_and_timesig(fn.filepath)
       IN  fn' = [fn EXCEPT !.tempo = found.tempo, !.timesig = found.timesig]
    /\ pc' = "extracted"
    /\ UNCHANGED notFn

NextExtract == ExtractTempoAndTimesig

SpecExtract == InitExtract /\ [][NextExtract]_vars

----------------------------------------------------------------------------
(* Properties of extract_tempo_and_timesig *)

\* The lines of the first staff block of the file, none without a staff.
FirstStaffBlock ==
    LET lines == fn.filepath
        start == FirstWith(lines, NWC_PREFIX_ADDSTAFF)
        later == {k \in (start + 1)..Len(lines) :
                     StartsWith(lines[k], NWC_PREFIX_ADDSTAFF) \/ lines[k] = NWC_END_MARKER}
    IN  IF start = 0 THEN <<>>
        ELSE SubSeq(lines, start, (CHOOSE k \in later : \A j \in later : k <= j) - 1)

\* The text of field key of a line, up to the next delimiter.
FieldOf(line, key) ==
    LET at == CHOOSE k \in 1..Len(line) : line[k] = key /\ \A j \in 1..(k - 1) : line[j] # key
        after == {k \in (at + 1)..Len(line) : line[k] = "|"}
        end == IF after = {} THEN Len(line) + 1
               ELSE CHOOSE k \in after : \A j \in after : k <= j
    IN  SubSeq(line, at + 1, end - 1)

HasField(line, key) == \E k \in 1..Len(line) : line[k] = key

IsTempoElement(line) == StartsWith(line, NWC_PREFIX_TEMPO)
IsTimeSigElement(line) == StartsWith(line, NWC_PREFIX_TIMESIG)

\* A tempo element whose Tempo field is a whole number.
HasWholeTempo(line) ==
    IsTempoElement(line) /\ HasField(line, "Tempo:") /\ FieldOf(line, "Tempo:") \in {<<"90">>, <<"120">>}

TempoValue(line) == IF FieldOf(line, "Tempo:") = <<"90">> THEN 90 ELSE 120

\* A time-signature element whose first field is the signature.
StartsWithSignature(line) ==
    IsTimeSigElement(line) /\ Len(line) > 3 /\ line[4] = "Signature:"

\* The first line of the block that satisfies P, <<>> when there is none.
FirstLine(P(_)) ==
    LET hits == {k \in 1..Len(FirstStaffBlock) : P(FirstStaffBlock[k])}
    IN  IF hits = {} THEN <<>>
        ELSE FirstStaffBlock[CHOOSE k \in hits : \A j \in hits : k <= j]

----------------------------------------------------------------------------
(* Properties of write_labeltrack_file *)

\* C24: write_labeltrack_file writes one line per section entry, in order,
\* start TAB start TAB name with the start offset to six decimals, for every
\* entry list process_lieddelen produces, also with absent start offsets.
LabeltrackLinePerEntry ==
    pc \in {"labeltrack", "labeltrack_raised"} =>
        /\ proc.labeltrack.kind = "value"
        /\ Len(proc.labeltrack.val) = Len(Entries)
        /\ \A k \in 1..Len(Entries) :
              /\ proc.labeltrack.val[k][1] = proc.labeltrack.val[k][2]
              /\ proc.labeltrack.val[k][3] = Entries[k][1]
              /\ Entries[k][3].kind = "value" =>
                    LET start == Entries[k][3].val
                        shown == proc.labeltrack.val[k][1]
                    IN  /\ 2 * shown * start[2] <= 2 * start[1] * 1000000 + start[2]
                        /\ 2 * shown * start[2] > 2 * start[1] * 1000000 - start[2]

----------------------------------------------------------------------------
(* One document under every operation that changes it: NwcFile._parse,     *)
(* NwcStaff.set_muted_and_volume, the merge of a section by                *)
(* concatenate_nwctxt_files, and write_to_file.                            *)

DocStaves ==
    {<<AddStaffLine(<<"A">>), FirstPropertiesLine, MutedLine("N", "100"), NoteLine>>,
     <<AddStaffLine(<<"B">>), NoteLine>>}

DocTails ==
    {<<NWC_END_MARKER>>, <<>>, <<NWC_END_MARKER, NWC_END_MARKER>>,
     <<NWC_END_MARKER, NoteLine>>}

DocFiles ==
    {<<HeaderLine>> \o Flatten(staves) \o tail :
        staves \in SeqsUpTo(DocStaves, MaxStaffs), tail \in DocTails}

DocSections ==
    {<<HeaderLine>> \o Flatten(staves) \o <<NWC_END_MARKER>> :
        staves \in SeqsUpTo({<<AddStaffLine(<<"A">>), StaffPropertiesLine, TempoLine, NoteLine>>,
                             <<AddStaffLine(<<"B">>), PlainBarLine, NoteLine>>},
                            MaxStaffs) \ {<<>>}}

InitDocument ==
    /\ pc = "doc_start"
    /\ file_lines \in DocFiles
    /\ nwc = NoFile
    /\ written = <<>>
    /\ CatIdle /\ ScanIdle /\ AnaIdle /\ ToolIdle

\* NwcFile(filepath)
DocParse ==
    /\ pc = "doc_start"
    /\ nwc' = NwcFile(file_lines)
    /\ file_list' = <<file_lines>>
    /\ pc' = "doc"
    /\ UNCHANGED <<file_lines, written, keep_tempi, cat, output_file, scan, anaVars, toolVars>>

\* staff.set_muted_and_volume(muted, volume) for a staff of the document
DocMute ==
    /\ pc = "doc"
    /\ \E i \in 1..Len(nwc.staffs), muted \in BOOLEAN :
          nwc' = MuteStaffOf(nwc, i, muted, "127")
    /\ UNCHANGED <<pc, file_lines, written, notDoc>>

\* One iteration of "for filepath in file_list[1:]" on the staves of the document.
DocMerge ==
    /\ pc = "doc"
    /\ Len(file_list) <= MaxMerges
    /\ \E f \in DocSections, keep \in BOOLEAN :
          LET p == parse_nwctxt(f)
              n == Len(p.staff_sections)
              m == Len(nwc.staffs)
              refs == [i \in 1..m |-> nwc.staffs[i].lines]
              sect == [i \in 1..n |-> p.heap[p.staff_sections[i]]]
          IN  /\ nwc' = [nwc EXCEPT !.heap = MergeStaffs(@, refs, sect, keep, 1, min_staffs(n, m))]
              /\ file_list' = Append(file_list, f)
    /\ UNCHANGED <<pc, file_lines, written, keep_tempi, cat, output_file, scan, anaVars, toolVars>>

\* write_to_file(filepath)
DocWrite ==
    /\ pc = "doc"
    /\ written' = write_to_file(nwc)
    /\ pc' = "doc_written"
    /\ UNCHANGED <<file_lines, nwc, notDoc>>

NextDocument == DocParse \/ DocMute \/ DocMerge \/ DocWrite

SpecDocument == InitDocument /\ [][NextDocument]_vars

\* C25: in every document reached by a parse followed by mute calls and
\* merges, each staff's first line starts with the add-staff prefix and no
\* later line of it does, no header or staff line is the end marker, and
\* what is written has the end marker exactly once, as its last line.
StaffShapeKept ==
    pc \in {"doc", "doc_written"} =>
        /\ \A i \in 1..Len(nwc.staffs) :
              LET lines == StaffLines(nwc, i)
              IN  /\ lines # <<>>
                  /\ StartsWith(lines[1], NWC_PREFIX_ADDSTAFF)
                  /\ \A k \in 2..Len(lines) : ~StartsWith(lines[k], NWC_PREFIX_ADDSTAFF)
                  /\ \A k \in 1..Len(lines) : lines[k] # NWC_END_MARKER
        /\ \A k \in 1..Len(nwc.header_lines) : nwc.header_lines[k] # NWC_END_MARKER
        /\ pc = "doc_written" =>
              /\ written # <<>>
              /\ written[Len(written)] = NWC_END_MARKER
              /\ \A k \in 1..(Len(written) - 1) : written[k] # NWC_END_MARKER

\* A document of two staves that was muted, took two sections and was written.
StaffShapeWitness ==
    /\ pc = "doc_written"
    /\ Len(nwc.staffs) = 2
    /\ Len(file_list) = 3
    /\ \E i \in 1..Len(nwc.staffs) :
          /\ Contains(Flatten(StaffLines(nwc, i)), <<"Muted:", "Y">>)
          /\ Contains(Flatten(StaffLines(nwc, i)), SeparatorLine)
    /\ written[Len(written)] = NWC_END_MARKER

----------------------------------------------------------------------------
(* The lyric map as a whole *)

\* The elements scanned so far.
Scanned == 1..(scan.i - 1)

\* The notes scanned so far that start a sequence, in order, as many of them
\* as there are syllables.
Takers ==
    LET starters == SelectSeq([j \in 1..(scan.i - 1) |-> j],
                              LAMBDA j : /\ IsNoteElement(scan.elements[j])
                                         /\ ~ContinuesSequence(scan.elements, j))
    IN  SubSeq(starters, 1, Min(Len(starters), Len(scan.syllables)))

\* The syllables of the takers that lie in measure m, in order.
SyllablesIn(m) ==
    LET here == SelectSeq([k \in 1..Len(Takers) |-> k],
                          LAMBDA k : MeasureAt(scan.elements, Takers[k]) = m)
    IN  [x \in 1..Len(here) |-> scan.syllables[here[x]]]

RECURSIVE ReadInOrder(_, _)
\* The sequences of map m for the keys given, in increasing key order.
ReadInOrder(m, keys) ==
    IF keys = <<>> THEN <<>> ELSE m[Head(keys)] \o ReadInOrder(m, Tail(keys))

\* C26: read in increasing measure order the map holds a prefix of the
\* syllable list; every syllable is assigned at most once, in list order, to
\* the measure current at its note; rests take no syllable and no more
\* syllables are assigned than notes were scanned.
MapIsPrefixOfSyllables ==
    pc \in {"map_loop", "map_done"} =>
        LET m == scan.st.measure_map
        IN  /\ ReadInOrder(m, Sorted(DOMAIN m)) =
                   SubSeq(scan.syllables, 1, scan.st.syllable_index)
            /\ scan.st.syllable_index = Len(Takers)
            /\ \A k \in 1..Len(Takers) : MeasureAt(scan.elements, Takers[k]) \in DOMAIN m
            /\ \A x \in DOMAIN m : m[x] = SyllablesIn(x)
            /\ scan.st.syllable_index <=
                   Cardinality({j \in Scanned : IsNoteElement(scan.elements[j])})

\* A rest, a note, a bar, a rest and a note with three syllables: two are
\* assigned, one to measure 0 and one to measure 1.
MapIsPrefixWitness ==
    /\ pc = "map_done"
    /\ scan.elements =
         <<AddStaffLine(STAFF_NAME_ZANG), RestLine, NoteLine, DoubleBarLine, NoteLine>>
    /\ scan.syllables = Syllables(3)
    /\ scan.st.measure_map = (0 :> << <<"do">> >>) @@ (1 :> << <<"re">> >>)

----------------------------------------------------------------------------
(* nwc-concat.py: get_measure_count *)

\* 'Style:LocalRepeatClose' in line and 'Repeat:' in line
is_repeat_close(line) ==
    Contains(line, <<"Style:LocalRepeatClose">>) /\ Contains(line, <<"Repeat:">>)

\* int(line.split('Repeat:')[1].split('|')[0])
repeat_of(line) == ParseInt(UpToPipe(AfterFirst(line, <<"Repeat:">>)))

CountStart ==
    [repeat_count |-> None, measures_after_repeat |-> 0, total_measures |-> 0,
     after_repeat |-> FALSE, current_measure_has_dur |-> FALSE]

\* The counting of a measure that has a duration.
CountMeasure(st) ==
    IF ~st.current_measure_has_dur THEN st
    ELSE IF st.after_repeat THEN [st EXCEPT !.measures_after_repeat = @ + 1]
    ELSE [st EXCEPT !.total_measures = @ + 1]

\* One iteration of the loop over second_staff.
CountStep(st, line) ==
    IF is_repeat_close(line)
    THEN IF repeat_of(line).has
         THEN [st EXCEPT !.repeat_count = repeat_of(line), !.after_repeat = TRUE,
                         !.current_measure_has_dur = FALSE]
         ELSE st
    ELSE IF StartsWith(line, <<"|", "Bar", "|">>) \/ line = <<"|", "Bar">>
    THEN [CountMeasure(st) EXCEPT !.current_measure_has_dur = FALSE]
    ELSE IF HasDur(line) THEN [st EXCEPT !.current_measure_has_dur = TRUE]
    ELSE st

RECURSIVE CountFromLine(_, _, _)
CountFromLine(st, second_staff, i) ==
    IF i > Len(second_staff) THEN st
    ELSE CountFromLine(CountStep(st, second_staff[i]), second_staff, i + 1)

get_measure_count(lines) ==
    LET p == parse_nwctxt(lines)
    IN  IF Len(p.staff_sections) < 2 THEN ReturnedNone
        ELSE LET st == CountMeasure(CountFromLine(CountStart, p.heap[p.staff_sections[2]], 1))
                 final_count == IF st.repeat_count.has
                                THEN st.repeat_count.val + st.measures_after_repeat
                                ELSE st.total_measures
             IN  IF final_count > 0 THEN Returned(final_count) ELSE ReturnedNone

RepeatCloseLine(n) == NWC_PREFIX_BAR \o <<"Style:LocalRepeatClose", "|", "Repeat:", n>>

CountAlphabet ==
    {NoteLine, RestLine, PlainBarLine, DoubleBarLine, RepeatCloseLine("2"),
     RepeatCloseLine("4"), RepeatCloseLine("0")}

CountFiles ==
    {<<HeaderLine>> \o first \o second \o tail :
        tail \in {<<NWC_END_MARKER>>, <<NWC_END_MARKER, NWC_END_MARKER>>},
        first \in {<<>>, <<AddStaffLine(STAFF_NAME_BASS), NoteLine, PlainBarLine, NoteLine>>},
        second \in {<<>>} \cup {<<AddStaffLine(STAFF_NAME_ZANG)>> \o body :
                                   body \in SeqsUpTo(CountAlphabet, MaxCountStaff)}}

InitCount ==
    /\ pc = "count"
    /\ \E lines \in CountFiles : fn = [filepath |-> lines, measure_count |-> ReturnedNone]
    /\ DocIdle /\ CatIdle /\ ScanIdle /\ AnaIdle
    /\ ProcIdle /\ ChordsIdle /\ PickupIdle /\ MuteIdle /\ SvcIdle

\* measure_count = get_measure_count(filepath)
CountMeasures ==
    /\ pc = "count"
    /\ fn' = [fn EXCEPT !.measure_count = get_measure_count(fn.filepath)]
    /\ pc' = "counted"
    /\ UNCHANGED notFn

NextCount == CountMeasures

SpecCount == InitCount /\ [][NextCount]_vars

----------------------------------------------------------------------------
(* Properties of get_measure_count *)

\* The staff blocks of the file: the add-staff lines it has.
StaffStarts(lines) == {k \in 1..Len(lines) : StartsWith(lines[k], NWC_PREFIX_ADDSTAFF)}

\* The second staff of the file, without its add-staff line and up to the
\* end marker.
SecondStaffBody ==
    LET lines == fn.filepath
        starts == Sorted(StaffStarts(lines))
        stops == {k \in (starts[2] + 1)..Len(lines) :
                     StartsWith(lines[k], NWC_PREFIX_ADDSTAFF) \/ lines[k] = NWC_END_MARKER}
    IN  SubSeq(lines, starts[2] + 1, (CHOOSE k \in stops : \A j \in stops : k <= j) - 1)

IsRepeatClose(line) == IsBarElement(line) /\ Contains(line, <<"Style:LocalRepeatClose">>)

RepeatCount(line) == FieldOf(line, "Repeat:")

\* The measures of body that begin after position from: maximal stretches
\* between bar elements, the last one ending with the staff; those that hold
\* an element with a duration.
SoundingAfter(body, from) ==
    Cardinality({a \in (from + 1)..Len(body) :
        /\ a = from + 1 \/ IsBarElement(body[a - 1])
        /\ ~IsBarElement(body[a])
        /\ \E b \in a..Len(body) :
              /\ \A k \in a..b : ~IsBarElement(body[k])
              /\ \E k \in a..b : Contains(body[k], <<"|", "Dur:">>) })

\* The count the claim describes, for a repeat-close bar at position r.
CountWithRepeatAt(body, r) ==
    ParseInt(RepeatCount(body[r])).val + SoundingAfter(body, r)

\* C27: null for fewer than two staves or a count of 0; otherwise the Repeat
\* count of the repeat-close bar of the second staff plus the measures with a
\* duration after that bar, and without such a bar the measures with a
\* duration; a last measure without closing bar counts when it has a duration.
MeasureCountAsDescribed ==
    pc = "counted" =>
        IF Cardinality(StaffStarts(fn.filepath)) < 2 THEN fn.measure_count.kind = "none"
        ELSE LET body == SecondStaffBody
                 closes == {r \in 1..Len(body) : IsRepeatClose(body[r])}
                 Shown(n) == IF n = 0 THEN fn.measure_count.kind = "none"
                             ELSE /\ fn.measure_count.kind = "value"
                                  /\ fn.measure_count.val = n
             IN  IF closes = {} THEN Shown(SoundingAfter(body, 0))
                 ELSE \E r \in closes : Shown(CountWithRepeatAt(body, r))

----------------------------------------------------------------------------
(* The bar tests of the components, and the legacy analyzer nwc-analyze.py *)

\* nwc_analyze.py: element.startswith(NWC_PREFIX_BAR), element stripped
bar_in_analyzer(line) == StartsWith(Strip(line), NWC_PREFIX_BAR)

\* nwc-analyze.py: element.startswith('|Bar'), element stripped
bar_in_legacy(line) == StartsWith(Strip(line), <<"|", "Bar">>)

\* concatenate_nwctxt_files: staff_data[0].startswith(NWC_PREFIX_BAR)
bar_in_separator_test(line) == StartsWith(line, NWC_PREFIX_BAR)

\* get_measure_count and extract_chords_from_first_staff:
\* line.startswith('|Bar|') or line == '|Bar'
bar_in_measure_count(line) == StartsWith(line, <<"|", "Bar", "|">>) \/ line = <<"|", "Bar">>

\* get_pickup_beats: line.startswith('|Bar'), the line as readlines() gives it
bar_in_pickup(line) == StartsWith(line \o <<"\n">>, <<"|", "Bar">>)

legacy_count_bars_in_staff(staff_content) == Count(staff_content, <<"|", "Bar">>)

legacy_detect_begintel(first_staff) ==
    Contains(BeforeFirst(first_staff, <<"|", "Bar">>), <<"|", "Rest", "|">>)

legacy_count_vooraf_measures(staff_content) ==
    LET lines == Split(staff_content, "\n")
        marker == <<"|", "Text", "|", "Text:", Quote, "liedstart", Quote>>
        hits == {i \in 1..Len(lines) : StartsWith(Strip(lines[i]), marker)}
        liedstart_index == CHOOSE i \in hits : \A j \in hits : i <= j
        bars_before ==
            Cardinality({i \in 1..(liedstart_index - 1) :
                            StartsWith(Strip(lines[i]), <<"|", "Bar">>)})
    IN  IF hits = {} THEN 0
        ELSE IF bars_before > 0 /\ legacy_detect_begintel(staff_content) THEN bars_before - 1
        ELSE bars_before

\* One iteration of the loop of the legacy map_lyrics_to_measures.
legacy_MapStep(st, syllables, raw) ==
    LET element == Strip(raw)
    IN  IF StartsWith(element, <<"|", "Bar">>)
        THEN [st EXCEPT !.current_measure = @ + 1,
                        !.measure_map = WithKey(@, st.current_measure + 1)]
        ELSE IF StartsWith(element, <<"|", "Note", "|">>) /\ st.syllable_index < Len(syllables)
        THEN IF st.skip_next_note
             THEN [st EXCEPT !.skip_next_note = HasTie(element)]
             ELSE [st EXCEPT
                     !.measure_map =
                         [WithKey(@, st.current_measure) EXCEPT
                             ![st.current_measure] =
                                 Append(@, syllables[st.syllable_index + 1])],
                     !.syllable_index = @ + 1,
                     !.skip_next_note = HasTie(element)]
        ELSE st

RECURSIVE legacy_MapFrom(_, _, _, _)
legacy_MapFrom(st, syllables, elements, i) ==
    IF i > Len(elements) THEN st
    ELSE legacy_MapFrom(legacy_MapStep(st, syllables, elements[i]), syllables, elements, i + 1)

legacy_map_lyrics_to_measures(staff_content, syllables) ==
    legacy_MapFrom(ScanStart, syllables, Split(staff_content, "\n"), 1).measure_map

\* What one analyzer derives from a staff.
Derived(bars, begintel, vooraf, map) ==
    [total_bars |-> bars, has_begintel |-> begintel, vooraf |-> vooraf, measure_map |-> map]

CompareAlphabet ==
    {NoteLine, TieNoteLine, RestLine, DoubleBarLine, PlainBarLine, LiedstartLine}

InitCompare ==
    /\ pc = "compare"
    /\ \E body \in SeqsUpTo(CompareAlphabet, MaxScanLen), n \in 0..MaxSyllables :
          fn = [lines |-> <<AddStaffLine(STAFF_NAME_ZANG)>> \o body,
                syllables |-> Syllables(n),
                analyzer |-> <<>>, legacy |-> <<>>]
    /\ DocIdle /\ CatIdle /\ ScanIdle /\ AnaIdle
    /\ ProcIdle /\ ChordsIdle /\ PickupIdle /\ MuteIdle /\ SvcIdle

\* The four functions of nwc_analyze.py and of nwc-analyze.py on one staff.
AnalyzeBoth ==
    /\ pc = "compare"
    /\ LET staff_content == JoinLines(fn.lines)
       IN  fn' = [fn EXCEPT
                    !.analyzer = Derived(count_bars_in_staff(staff_content),
                                         detect_begintel(staff_content),
                                         count_vooraf_measures(staff_content),
                                         map_lyrics_to_measures(staff_content, fn.syllables)),
                    !.legacy = Derived(legacy_count_bars_in_staff(staff_content),
                                       legacy_detect_begintel(staff_content),
                                       legacy_count_vooraf_measures(staff_content),
                                       legacy_map_lyrics_to_measures(staff_content, fn.syllables))]
    /\ pc' = "compared"
    /\ UNCHANGED notFn

NextCompare == AnalyzeBoth

SpecCompare == InitCompare /\ [][NextCompare]_vars

\* C28: every component takes the same lines for bar elements, the plain
\* '|Bar' line and the styled '|Bar|...' line alike, and the two analyzers
\* derive the same bar count, pickup flag, lead-in count and lyric map.
BarDetectionAgrees ==
    pc = "compared" =>
        /\ \A k \in 1..Len(fn.lines) :
              LET line == fn.lines[k]
              IN  /\ bar_in_analyzer(line) <=> bar_in_legacy(line)
                  /\ bar_in_analyzer(line) <=> bar_in_separator_test(line)
                  /\ bar_in_analyzer(line) <=> bar_in_measure_count(line)
                  /\ bar_in_analyzer(line) <=> bar_in_pickup(line)
        /\ fn.analyzer = fn.legacy

----------------------------------------------------------------------------
(* Sections with lyrics: concatenation, then analysis of the merged file *)

\* The lyric element of the k-th section.
SectionLyric(k) ==
    NWC_PREFIX_LYRIC1 \o <<"Text:", Quote>>
        \o (IF k = 1 THEN <<"do", "-", "re">> ELSE <<"mi", " ", "fa">>) \o <<Quote>>

SectionZangAlphabet == {NoteLine, RestLine, DoubleBarLine}

\* The k-th section file: a Bass staff and a Zang staff, with or without lyrics.
LyricSectionFiles(k) ==
    {<<HeaderLine, AddStaffLine(STAFF_NAME_BASS), NoteLine, AddStaffLine(STAFF_NAME_ZANG)>>
        \o lyr \o zang \o <<NWC_END_MARKER>> :
           lyr \in {<<>>, <<SectionLyric(k)>>},
           zang \in SeqsUpTo(SectionZangAlphabet, MaxZang)}

\* The file lists: a first and a second section.
MedleyFileLists == {<<f, g>> : f \in LyricSectionFiles(1), g \in LyricSectionFiles(2)}

InitMedley ==
    /\ pc = "sections"
    /\ file_list \in MedleyFileLists
    /\ keep_tempi \in BOOLEAN
    /\ cat = NoCat
    /\ output_file = <<>>
    /\ song = <<>>
    /\ analysis = NoAnalysis
    /\ report = <<>>
    /\ DocIdle /\ ScanIdle /\ ToolIdle

\* header, first_staffs = parse_nwctxt(file_list[0])
MedleyFirst ==
    /\ pc = "sections"
    /\ cat' = CatSeed(file_list[1])
    /\ pc' = "section_loop"
    /\ UNCHANGED <<file_list, keep_tempi, output_file, notCat>>

\* The loop body for the second file, and the write of output_file.
MedleySection ==
    /\ pc = "section_loop"
    /\ cat' = CatSection(cat, file_list[2], keep_tempi, 2)
    /\ output_file' = CatOutput(cat')
    /\ pc' = "merged"
    /\ UNCHANGED <<file_list, keep_tempi, notCat>>

\* analyze_nwctxt(output_file)
AnalyzeMerged ==
    /\ pc = "merged"
    /\ song' = output_file
    /\ analysis' = analyze_nwctxt(output_file)
    /\ pc' = "merged_analyzed"
    /\ UNCHANGED <<report, notAna>>

NextMedley == MedleyFirst \/ MedleySection \/ AnalyzeMerged

SpecMedley == InitMedley /\ [][NextMedley]_vars

IsLyricElement(line) == StartsWith(line, <<"|", "Lyric1", "|">>)

LyricElements(lines) == SelectSeq(lines, IsLyricElement)

\* The vocal staff of a file, as its lines.
VocalStaff(f) ==
    LET d == NwcFile(f) IN StaffLines(d, get_staff_by_name(d, STAFF_NAME_ZANG))

\* The syllables the map holds, in measure order.
AlignedSyllables == ReadInOrder(analysis.measure_map, Sorted(DOMAIN analysis.measure_map))

IsPrefixOf(s, t) == Len(s) <= Len(t) /\ s = SubSeq(t, 1, Len(s))

\* C30: the merged vocal staff keeps the lyric elements of every section, in
\* section order; the analysis of the merged file aligns syllables of the
\* first of them only, and no syllable of a later lyric element is assigned to
\* a measure.
FirstLyricElementOnly ==
    pc = "merged_analyzed" =>
        LET lyr == LyricElements(VocalStaff(output_file))
        IN  /\ lyr = LyricElements(VocalStaff(file_list[1]))
                        \o LyricElements(VocalStaff(file_list[2]))
            /\ analysis.has
            /\ IF lyr = <<>> THEN AlignedSyllables = <<>>
               ELSE /\ IsPrefixOf(AlignedSyllables, parse_lyric_text(lyr[1]))
                    /\ \A k \in 2..Len(lyr), j \in 1..Len(AlignedSyllables) :
                          \A n \in 1..Len(parse_lyric_text(lyr[k])) :
                              AlignedSyllables[j] # parse_lyric_text(lyr[k])[n]

\* Two lyric elements in the merged vocal staff, more notes than the first of
\* them has syllables: both of its syllables are aligned and nothing else.
FirstLyricElementWitness ==
    /\ pc = "merged_analyzed"
    /\ Len(LyricElements(VocalStaff(output_file))) = 2
    /\ Len(SelectSeq(VocalStaff(output_file), IsNoteElement)) > 2
    /\ AlignedSyllables = <<<<"do">>, <<"re">>>>

====
